---------------------------- MODULE Spec2Model ----------------------------
(***************************************************************************)
(* Grid reconstruction and block aggregation of the SPADE tile scripts:    *)
(*   SPADE/build_z2_from_z1_tiles.py            (block mode, main)         *)
(*   SPADE/Synt_Sat_Scripts/stitch_full_mosaic.py (stitch mode)            *)
(* A file name is a sequence of characters; a character is a one-token     *)
(* string ordered by its Unicode code point (Ord), as Python orders str.   *)
(***************************************************************************)
EXTENDS Integers, Sequences, FiniteSets, TLC

(***************************************************************************)
(* Characters and strings                                                  *)
(***************************************************************************)

\* U+00B2 SUPERSCRIPT TWO: str.isdigit() is True for it, int() rejects it.
Sup2 == "sup2"

\* Code points of the characters the model uses (Python compares str by these).
Ord(c) ==
  CASE c = "." -> 46
    [] c = "0" -> 48
    [] c = "1" -> 49
    [] c = "2" -> 50
    [] c = "3" -> 51
    [] c = "4" -> 52
    [] c = "5" -> 53
    [] c = "6" -> 54
    [] c = "7" -> 55
    [] c = "8" -> 56
    [] c = "9" -> 57
    [] c = "_" -> 95
    [] c = "a" -> 97
    [] c = "b" -> 98
    [] c = "g" -> 103
    [] c = "n" -> 110
    [] c = "p" -> 112
    [] c = Sup2 -> 178

\* Characters int() accepts as decimal digits.
DecimalChars == {"0", "1", "2", "3", "4", "5", "6", "7", "8", "9"}

\* Characters for which str.isdigit() is True.
IsDigitChars == DecimalChars \cup {Sup2}

\* Python's None.
None == <<"None">>

\* Python's str < str: lexicographic by code point, a proper prefix first.
RECURSIVE StrLess(_, _)
StrLess(s, u) ==
  IF Len(u) = 0 THEN FALSE
  ELSE IF Len(s) = 0 THEN TRUE
  ELSE IF Ord(Head(s)) # Ord(Head(u)) THEN Ord(Head(s)) < Ord(Head(u))
  ELSE StrLess(Tail(s), Tail(u))

\* sorted(set): ascending sequence of the members of a finite set of strings.
RECURSIVE Sorted(_)
Sorted(S) ==
  IF S = {} THEN <<>>
  ELSE LET m == CHOOSE a \in S : \A b \in S \ {a} : StrLess(a, b)
       IN  <<m>> \o Sorted(S \ {m})

\* Index of the last "." of s, 0 when there is none.
RECURSIVE LastDot(_, _)
LastDot(s, k) ==
  IF k = 0 THEN 0 ELSE IF s[k] = "." THEN k ELSE LastDot(s, k - 1)

\* os.path.splitext(name)[0]: cut at the last dot, unless everything before
\* that dot is dots (a leading-dot name has no extension).
splitext_root(name) ==
  LET d == LastDot(name, Len(name))
  IN  IF d = 0 \/ (\A k \in 1..(d - 1) : name[k] = ".") THEN name
      ELSE SubSeq(name, 1, d - 1)

\* str.split('_'): the segments between underscores, empty ones kept.
RECURSIVE split(_, _)
split(s, cur) ==
  IF Len(s) = 0 THEN <<cur>>
  ELSE IF Head(s) = "_" THEN <<cur>> \o split(Tail(s), <<>>)
  ELSE split(Tail(s), Append(cur, Head(s)))

\* str.isdigit(): non-empty and every character a digit character.
isdigit(s) == Len(s) > 0 /\ \A k \in 1..Len(s) : s[k] \in IsDigitChars

\* int(s) raises ValueError unless every character is a decimal digit.
int_raises(s) == \E k \in 1..Len(s) : s[k] \notin DecimalChars

\* int(s) for a string of decimal digits (leading zeros allowed).
RECURSIVE int(_)
int(s) ==
  IF Len(s) = 0 THEN 0 ELSE 10 * int(SubSeq(s, 1, Len(s) - 1)) + (Ord(s[Len(s)]) - 48)

(***************************************************************************)
(* CoordinateParser                                                        *)
(***************************************************************************)

NoCoord == [tag |-> "None"]
Unset == [tag |-> "unset"]
Raised(e) == [tag |-> e]
Coord(x, y) == [tag |-> "xy", x |-> x, y |-> y]

\* The decision on the two segments taken as x_part and y_part.
parse_parts(x_part, y_part) ==
  IF isdigit(x_part) /\ isdigit(y_part)
  THEN IF int_raises(x_part) \/ int_raises(y_part)
       THEN Raised("ValueError")
       ELSE Coord(int(x_part), int(y_part))
  ELSE NoCoord

\* x_part = parts[-2], y_part = parts[-1] of a segment list.
parse_last_two(parts) ==
  IF Len(parts) < 2 THEN NoCoord
  ELSE parse_parts(parts[Len(parts) - 1], parts[Len(parts)])

\* Mutant: skips empty segments before taking the last two.
parse_xy_skip_empty(name) ==
  parse_last_two(SelectSeq(split(splitext_root(name), <<>>), LAMBDA p : Len(p) > 0))

parse_xy_from_name(name) == parse_last_two(split(splitext_root(name), <<>>))

(***************************************************************************)
(* GridBuilder                                                             *)
(***************************************************************************)

\* [[None for _ in range(width)] for __ in range(height)], indexed [y][x].
empty_grid(width, height) ==
  [y \in 0..(height - 1) |-> [x \in 0..(width - 1) |-> None]]

Max(S) == CHOOSE m \in S : \A n \in S : n <= m

\* math.ceil(n / d) for n >= 0 and d # 0 (Python true division, then ceil).
ceil_div(n, d) ==
  IF d > 0 THEN (n + d - 1) \div d ELSE -(n \div (-d))

\* int(math.sqrt(n)) for n >= 0.
isqrt(n) == Max({r \in 0..n : r * r <= n})

\* The row-major list of the non-None cells of a grid.
ordered_cells(grid, width, height, k) ==
  SelectSeq([i \in 1..(width * height - k) |->
               grid[(k + i - 1) \div width][(k + i - 1) % width]],
            LAMBDA cell : cell # None)

\* Mutant: an earlier entry is kept, a later duplicate is dropped.
RECURSIVE place_coords_keep_first(_, _, _)
place_coords_keep_first(grid, coords, k) ==
  IF k > Len(coords) THEN grid
  ELSE place_coords_keep_first(
         IF grid[coords[k].y][coords[k].x] = None
         THEN [grid EXCEPT ![coords[k].y][coords[k].x] = coords[k].f] ELSE grid,
         coords, k + 1)

\* for x, y, fname in coords: grid[y][x] = fname  (a later entry overwrites).
RECURSIVE place_coords(_, _, _)
place_coords(grid, coords, k) ==
  IF k > Len(coords) THEN grid
  ELSE place_coords([grid EXCEPT ![coords[k].y][coords[k].x] = coords[k].f],
                    coords, k + 1)

\* One (x, y, f) entry if the name parses, none otherwise.
coord_entry(f, xy) ==
  IF xy.tag = "xy" THEN <<[x |-> xy.x, y |-> xy.y, f |-> f]>> ELSE <<>>

\* The (x, y, f) entries of the names that parse, in list order.
RECURSIVE coords_of(_)
coords_of(fnames) ==
  IF Len(fnames) = 0 THEN <<>>
  ELSE coord_entry(Head(fnames), parse_xy_from_name(Head(fnames)))
         \o coords_of(Tail(fnames))

GridResult(ordered, width, height, grid) ==
  [tag |-> "grid", ordered |-> ordered, width |-> width, height |-> height,
   grid |-> grid]

\* The grid of the given size with the entries placed, and its ordered list.
grid_of_size(coords, width, height) ==
  GridResult(ordered_cells(place_coords(empty_grid(width, height), coords, 1),
                           width, height, 0),
             width, height,
             place_coords(empty_grid(width, height), coords, 1))

\* Mutant: width is taken from the y coordinates and height from the x ones.
grid_of_coords_swapped(coords) ==
  IF Len(coords) = 0 THEN NoCoord
  ELSE grid_of_size(coords,
                    Max({coords[k].y : k \in 1..Len(coords)}) + 1,
                    Max({coords[k].x : k \in 1..Len(coords)}) + 1)

\* width = max_x + 1, height = max_y + 1 over the parsed entries.
grid_of_coords(coords) ==
  IF Len(coords) = 0 THEN NoCoord
  ELSE grid_of_size(coords,
                    Max({coords[k].x : k \in 1..Len(coords)}) + 1,
                    Max({coords[k].y : k \in 1..Len(coords)}) + 1)

reorder_with_coordinates(fnames) ==
  IF \E k \in 1..Len(fnames) : parse_xy_from_name(fnames[k]).tag = "ValueError"
  THEN Raised("ValueError")
  ELSE grid_of_coords(coords_of(fnames))

\* k = 0; for y in range(H): for x in range(W): if k < len(lst): grid[y][x] = lst[k]
fill_row_major(lst, W, H) ==
  [y \in 0..(H - 1) |-> [x \in 0..(W - 1) |->
     IF y * W + x < Len(lst) THEN lst[y * W + x + 1] ELSE None]]

\* Mutant: past the last name the list wraps around to the first names.
padded_at_wrap(N, k) == k % N

\* padded = idxs + [N-1] * (W*H - N): index k (0-based) of the padded list.
padded_at(N, k) == IF k < N THEN k ELSE N - 1

\* order_list: both branches of the order flag append common[padded[k]] for
\* k = 0, 1, ..., W*H-1; they differ in loop nesting only, not in the index.
order_list_of(fnames, W, H, order) ==
  IF order = "row"
  THEN [k \in 1..(IF W > 0 /\ H > 0 THEN W * H ELSE 0) |->
          fnames[padded_at(Len(fnames), k - 1) + 1]]
  ELSE [k \in 1..(IF W > 0 /\ H > 0 THEN W * H ELSE 0) |->
          fnames[padded_at(Len(fnames), k - 1) + 1]]

(***************************************************************************)
(* Inputs of a run                                                         *)
(***************************************************************************)

Ext == <<".", "p", "n", "g">>

\* Names whose parse outcome differs: coordinates, a duplicate coordinate
\* written with a leading zero, no prefix, no coordinate, an empty trailing
\* segment, a superscript digit.
MixedPool ==
  { <<"a", "_", "0", "_", "0">> \o Ext,
    <<"a", "_", "1", "_", "2">> \o Ext,
    <<"b", "_", "0", "1", "_", "2">> \o Ext,
    <<"2", "_", "1">> \o Ext,
    <<"b">> \o Ext,
    <<"a", "_", "1", "_">> \o Ext,
    <<"a", "_", Sup2, "_", "0">> \o Ext }

\* Most names of a listing drawn from MixedPool.
MaxNames == 3

\* Coordinate-free names "a.png", "aa.png", ...: the largest such listing.
MaxPlain == 5

PlainName(k) == [i \in 1..k |-> "a"] \o Ext

NameLists ==
  {L \in SUBSET MixedPool : Cardinality(L) <= MaxNames}
    \cup {{PlainName(k) : k \in 1..n} : n \in 1..MaxPlain}

\* An optional integer argument: {} is None, {v} is the value v.
NoArg == {}
Arg(v) == {v}
ValueOf(a) == CHOOSE v \in a : TRUE

BlockValues == {1, 2, 3}
TilesPerRowValues == {NoArg, Arg(0), Arg(1), Arg(2), Arg(3)}
CoordDigitsValues == {NoArg, Arg(2)}

\* --tile_size and --guidance_size defaults.
tile_size == 256
guidance_size == 64

Channels == {"real", "map", "ins", "synth"}

\* Files of the source directories that may be unreadable: <<channel, name>>.
FaultyFiles ==
  { <<"map", <<"a", "_", "0", "_", "0">> \o Ext>>,
    <<"real", <<"b", "_", "0", "1", "_", "2">> \o Ext>>,
    <<"synth", PlainName(1)>>,
    <<"ins", PlainName(2)>> }

(***************************************************************************)
(* Images, at tile granularity                                             *)
(***************************************************************************)

\* Pixel format of each channel canvas: Image.new('RGB' | 'L', ...).
Mode(c) == IF c \in {"real", "synth"} THEN "RGB" ELSE "L"

\* Image.new(mode, (t, t), 0): the blank placeholder of a pixel format.
Blank(mode) == [kind |-> "blank", mode |-> mode, name |-> None]

\* Image.open(os.path.join(dir_of_channel, fname)).convert(mode).
Tile(c, fname) == [kind |-> "tile", mode |-> Mode(c), name |-> fname, dir |-> c]

\* Paste offsets of the S x S members of a block canvas.
Offsets(S, t) == {<<i * t, j * t>> : i \in 0..(S - 1), j \in 0..(S - 1)}

\* Image.new(mode, (big, big)): every pixel zero.
new_canvas(mode, S, t) == [o \in Offsets(S, t) |-> Blank(mode)]

\* canvas.paste(img, (left, upper)) of a t x t image.
paste(canvas, img, off) == [canvas EXCEPT ![off] = img]

\* canvas.resize((size, size), resample).
resize(canvas, size, resample) ==
  [size |-> size, resample |-> resample, of |-> canvas]

(***************************************************************************)
(* TileWriter                                                              *)
(***************************************************************************)

Digits == <<"0", "1", "2", "3", "4", "5", "6", "7", "8", "9">>

\* str(n) for n >= 0.
RECURSIVE str(_)
str(n) == IF n < 10 THEN <<Digits[n + 1]>> ELSE Append(str(n \div 10), Digits[(n % 10) + 1])

\* Mutant: a number wider than the field keeps its last width digits.
zfill_truncating(n, width) ==
  LET d == str(n)
  IN  IF Len(d) >= width THEN SubSeq(d, Len(d) - width + 1, Len(d))
      ELSE [k \in 1..(width - Len(d)) |-> "0"] \o d

\* f"{n:0{width}d}" for n >= 0 and width >= 0: zero-filled on the left to at
\* least width characters, never truncated.
zfill(n, width) ==
  LET d == str(n)
  IN  IF Len(d) >= width THEN d ELSE [k \in 1..(width - Len(d)) |-> "0"] \o d

\* Mutant: the stem is written <Y>_<X>.png.
coord_stem_yx(mx, my, px, py) == zfill(my, py) \o <<"_">> \o zfill(mx, px) \o Ext

coord_stem(mx, my, px, py) == zfill(mx, px) \o <<"_">> \o zfill(my, py) \o Ext

\* Mutant: the ordinal counts from one.
seq_stem_from_one(n) == zfill(n + 1, 5) \o Ext

\* f"{count:05d}.png".
seq_stem(n) == zfill(n, 5) \o Ext

(***************************************************************************)
(* Block mode: main() of build_z2_from_z1_tiles.py                         *)
(***************************************************************************)

VARIABLES
  args,        \* the parsed command line
  listing,     \* os.listdir of each source directory (the .png names)
  pc,          \* position in main(): start, listed, grid, blocks, done, exit, crashed
  error,       \* the exception that ended the run, "" if none
  common,      \* sorted common names
  strategy,    \* the branch that built the grid: coord, explicit, square
  W, H,        \* grid width and height
  name_grid,   \* name_grid[y][x]: a name or None
  pad_x, pad_y,
  bx, by,      \* anchor of the next block
  count,       \* blocks written
  reads,       \* outcome of the member reads of the last block
  real_big, map_big, ins_big, syn_big,   \* canvases of the last block
  out_files,   \* <<dir, stem>> -> image written
  stems,       \* the stem of each block, in processing order
  name, xy,    \* one parser call: its argument and its result
  dirs,        \* the directories created under the output root
  img,         \* the tiler: the image that was cut into tiles
  disk,        \* stitch mode: name -> size and mode of the tile on disk
  tile_names,  \* stitch mode: fnames, the sorted names of tiles_dir
  ordered,     \* stitch mode: the names placed in the grid, row-major
  im0,         \* stitch mode: the decoded reference tile
  mosaic,      \* stitch mode: the canvas
  cx, cy       \* stitch mode: the cell the paste loop is at

vars == <<args, listing, pc, error, common, strategy, W, H, name_grid, pad_x, pad_y,
          bx, by, count, reads, real_big, map_big, ins_big, syn_big, out_files,
          stems, name, xy, dirs, img, disk, tile_names, ordered, im0, mosaic,
          cx, cy>>

stitch_vars == <<img, disk, tile_names, ordered, im0, mosaic, cx, cy>>

ArgSets ==
  [block : BlockValues, tiles_per_row : TilesPerRowValues, order : {"row", "col"},
   name_mode : {"seq", "coord"}, coord_digits : CoordDigitsValues]

NoFunction == <<>>

RunInit ==
  /\ pc = "start"
  /\ error = ""
  /\ common = <<>>
  /\ strategy = ""
  /\ W = 0 /\ H = 0
  /\ name_grid = NoFunction
  /\ pad_x = 0 /\ pad_y = 0
  /\ bx = 0 /\ by = 0
  /\ count = 0
  /\ reads = NoFunction
  /\ real_big = NoFunction /\ map_big = NoFunction
  /\ ins_big = NoFunction /\ syn_big = NoFunction
  /\ out_files = NoFunction
  /\ stems = <<>>
  /\ dirs = {}
  /\ img = NoFunction
  /\ tile_names = <<>>
  /\ ordered = <<>>
  /\ im0 = NoFunction
  /\ mosaic = NoFunction
  /\ cx = 0 /\ cy = 0

\* Four listings that hold names but share none.
DisjointListing ==
  [c \in Channels |-> IF c = "real" THEN {<<"a", "_", "0", "_", "0">> \o Ext}
                                    ELSE {<<"b">> \o Ext}]

\* One tile whose coordinate segments are five characters wide; its 43 x 8
\* grid is cut with S = 3 in coordinate mode.
WideName == <<"a", "_", "0", "0", "0", "4", "2", "_", "0", "0", "0", "0", "7">> \o Ext

WideArgs ==
  [block : {3}, tiles_per_row : {NoArg}, order : {"row"}, name_mode : {"coord"},
   coord_digits : CoordDigitsValues \cup {Arg(1)}]

\* One name without coordinates laid out in a long row, in coordinate mode:
\* W // S is 10 or 30 (two digits), 9 or 3 (one digit).
LongRowArgs ==
  [block : {1, 3}, tiles_per_row : {Arg(10), Arg(29), Arg(30)}, order : {"row"},
   name_mode : {"coord"}, coord_digits : {NoArg}]

Init ==
  /\ \/ /\ args \in ArgSets
        /\ \/ \E L \in NameLists : listing = [c \in Channels |-> L]
           \/ listing = DisjointListing
     \/ /\ args \in WideArgs
        /\ listing = [c \in Channels |-> {WideName}]
     \/ /\ args \in LongRowArgs
        /\ listing = [c \in Channels |-> {PlainName(1)}]
  /\ name = None /\ xy = Unset
  /\ disk = NoFunction
  /\ RunInit

\* The entries of a list, as a set.
SetOf(entries) == {entries[k] : k \in 1..Len(entries)}

Reverse(entries) == [k \in 1..Len(entries) |-> entries[Len(entries) + 1 - k]]

\* Orders in which os.listdir may return the names of a directory.
ListOrders(S) == {Sorted(S), Reverse(Sorted(S))}

\* f.lower().endswith('.png'), on names without upper-case letters.
IsPng(f) == Len(f) >= Len(Ext) /\ SubSeq(f, Len(f) - Len(Ext) + 1, Len(f)) = Ext

\* fnames = [f for f in os.listdir(dir_path) if ...]; fnames.sort().
read_pngs_sorted(entries) == Sorted({f \in SetOf(entries) : IsPng(f)})

\* Mutant: the names of any channel are taken, not those common to all.
ensure_pairs_union(real, mp, ins, syn) ==
  Sorted(SetOf(read_pngs_sorted(real)) \cup SetOf(read_pngs_sorted(mp))
           \cup SetOf(read_pngs_sorted(ins)) \cup SetOf(read_pngs_sorted(syn)))

\* Mutant: the common names are kept in the order of the real listing.
ensure_pairs_unsorted(real, mp, ins, syn) ==
  SelectSeq(real, LAMBDA f : /\ IsPng(f) /\ f \in SetOf(mp)
                             /\ f \in SetOf(ins) /\ f \in SetOf(syn))

\* common = sorted(list(real & mp & ins & syn)) over the four listings;
\* SystemExit when empty.
ensure_pairs(real, mp, ins, syn) ==
  Sorted(SetOf(read_pngs_sorted(real)) \cap SetOf(read_pngs_sorted(mp))
           \cap SetOf(read_pngs_sorted(ins)) \cap SetOf(read_pngs_sorted(syn)))

\* The directories main() creates under z2_out_root.
OutDirs == {"real", "map", "ins", "guidance"}

\* os.makedirs(..., exist_ok=True) of the four output directories, which
\* main() calls before ensure_pairs.
makedirs(created) == created \cup OutDirs

EnsurePairs ==
  /\ pc = "start"
  /\ dirs' = makedirs(dirs)
  /\ \E real \in ListOrders(listing["real"]), mp \in ListOrders(listing["map"]),
        ins \in ListOrders(listing["ins"]), syn \in ListOrders(listing["synth"]) :
       common' = ensure_pairs(real, mp, ins, syn)
  /\ IF Len(common') = 0
     THEN pc' = "exit" /\ error' = "SystemExit"
     ELSE pc' = "listed" /\ error' = error
  /\ UNCHANGED <<args, listing, strategy, W, H, name_grid, pad_x, pad_y, bx, by, count,
                 reads, real_big, map_big, ins_big, syn_big, out_files, stems, name, xy>>
  /\ UNCHANGED stitch_vars

BuiltGrid(strat, width, height, grid) ==
  [tag |-> "grid", strategy |-> strat, W |-> width, H |-> height, grid |-> grid]

\* Mutant: the height is rounded down, N // W.
explicit_grid_floor(fnames, w) ==
  IF w = 0 THEN Raised("ZeroDivisionError")
  ELSE BuiltGrid("explicit", w, Len(fnames) \div w,
                 fill_row_major(fnames, w, Len(fnames) \div w))

\* Mutant: the cells past the last name repeat the last name, as the
\* stitcher's fallback does.
explicit_grid_padded(fnames, w) ==
  IF w = 0 THEN Raised("ZeroDivisionError")
  ELSE BuiltGrid("explicit", w, ceil_div(Len(fnames), w),
                 fill_row_major(order_list_of(fnames, w, ceil_div(Len(fnames), w), "row"),
                                w, ceil_div(Len(fnames), w)))

\* Fallback with --tiles_per_row: W = tiles_per_row, H = ceil(N / W), the
\* names row-major, the cells past the last name left None.
explicit_grid(fnames, w) ==
  IF w = 0 THEN Raised("ZeroDivisionError")
  ELSE BuiltGrid("explicit", w, ceil_div(Len(fnames), w),
                 fill_row_major(fnames, w, ceil_div(Len(fnames), w)))

\* Last resort: W = max(S, int(sqrt(N))), H = ceil(N / W), the list padded
\* with its last name.
square_grid(fnames, approx_w, order) ==
  BuiltGrid("square", approx_w, ceil_div(Len(fnames), approx_w),
            fill_row_major(order_list_of(fnames, approx_w,
                                         ceil_div(Len(fnames), approx_w), order),
                           approx_w, ceil_div(Len(fnames), approx_w)))

\* Mutant: a supplied tiles_per_row takes precedence over parsed coordinates.
select_grid_width_first(r, fnames, a) ==
  IF r.tag = "ValueError" THEN r
  ELSE IF a.tiles_per_row # NoArg THEN explicit_grid(fnames, ValueOf(a.tiles_per_row))
  ELSE IF r.tag = "grid" THEN BuiltGrid("coord", r.width, r.height, r.grid)
  ELSE square_grid(fnames, Max({a.block, isqrt(Len(fnames))}), a.order)

\* The strategy dispatch of main() on the result r of reorder_with_coordinates.
select_grid(r, fnames, a) ==
  IF r.tag = "ValueError" THEN r
  ELSE IF r.tag = "grid" THEN BuiltGrid("coord", r.width, r.height, r.grid)
  ELSE IF a.tiles_per_row # NoArg THEN explicit_grid(fnames, ValueOf(a.tiles_per_row))
  ELSE square_grid(fnames, Max({a.block, isqrt(Len(fnames))}), a.order)

\* The grid main() builds from common: coordinate inference, else the explicit
\* width, else the square approximation.
build_grid(fnames, a) == select_grid(reorder_with_coordinates(fnames), fnames, a)

\* The assignments of main() from a result g of build_grid.
TakeGrid(g) ==
  IF g.tag # "grid"
  THEN /\ pc' = "crashed" /\ error' = g.tag
       /\ UNCHANGED <<strategy, W, H, name_grid>>
  ELSE /\ pc' = "grid" /\ error' = error
       /\ strategy' = g.strategy
       /\ W' = g.W /\ H' = g.H
       /\ name_grid' = g.grid

BuildGrid ==
  /\ pc = "listed"
  /\ TakeGrid(build_grid(common, args))
  /\ UNCHANGED <<args, listing, common, pad_x, pad_y, bx, by, count, reads, real_big,
                 map_big, ins_big, syn_big, out_files, stems, name, xy>>
  /\ UNCHANGED stitch_vars
  /\ UNCHANGED dirs

\* The first non-None cell of the grid in row-major order, None if there is none.
first_cell(cells) == IF Len(cells) = 0 THEN None ELSE cells[1]

sample_fname_of(grid, width, height) == first_cell(ordered_cells(grid, width, height, 0))

\* Mutant: the two widths are taken from the wrong segments.
segment_pads_swapped(parts) ==
  IF Len(parts) >= 2 /\ isdigit(parts[Len(parts) - 1]) /\ isdigit(parts[Len(parts)])
  THEN [x |-> Len(parts[Len(parts)]), y |-> Len(parts[Len(parts) - 1])]
  ELSE [x |-> 0, y |-> 0]

\* len(parts[-2]), len(parts[-1]) if both are digit strings, else 0, 0.
segment_pads(parts) ==
  IF Len(parts) >= 2 /\ isdigit(parts[Len(parts) - 1]) /\ isdigit(parts[Len(parts)])
  THEN [x |-> Len(parts[Len(parts) - 1]), y |-> Len(parts[Len(parts)])]
  ELSE [x |-> 0, y |-> 0]

sample_pads(sample) ==
  IF sample = None THEN [x |-> 0, y |-> 0]
  ELSE segment_pads(split(splitext_root(sample), <<>>))

\* Mutant: the fallback width is one digit, whatever the grid.
fallback_pads_one_digit(p, width, height, S) ==
  [x |-> IF p.x = 0 THEN 1 ELSE p.x, y |-> IF p.y = 0 THEN 1 ELSE p.y]

\* if pad_x == 0: pad_x = len(str(W//S)); if pad_y == 0: pad_y = len(str(H//S)).
fallback_pads(p, width, height, S) ==
  [x |-> IF p.x = 0 THEN Len(str(width \div S)) ELSE p.x,
   y |-> IF p.y = 0 THEN Len(str(height \div S)) ELSE p.y]

\* pad_x, pad_y of coord mode; an explicit coord_digits replaces both.
padding(grid, width, height, a) ==
  IF a.coord_digits # NoArg
  THEN [x |-> ValueOf(a.coord_digits), y |-> ValueOf(a.coord_digits)]
  ELSE fallback_pads(sample_pads(sample_fname_of(grid, width, height)),
                     width, height, a.block)

\* The assignment of pad_x, pad_y.
TakePads(p) == pad_x' = p.x /\ pad_y' = p.y

DeterminePadding ==
  /\ pc = "grid"
  /\ IF args.name_mode = "coord"
     THEN TakePads(padding(name_grid, W, H, args))
     ELSE UNCHANGED <<pad_x, pad_y>>
  /\ count' = 0
  /\ bx' = 0 /\ by' = 0
  /\ pc' = "blocks"
  /\ UNCHANGED <<args, listing, error, common, strategy, W, H, name_grid, reads,
                 real_big, map_big, ins_big, syn_big, out_files, stems, name, xy>>
  /\ UNCHANGED stitch_vars
  /\ UNCHANGED dirs

\* Mutant: an out-of-range member is clamped to the nearest grid cell.
member_fname_clamped(grid, width, height, gx, gy) ==
  grid[IF gy >= height THEN height - 1 ELSE gy][IF gx >= width THEN width - 1 ELSE gx]

\* fname of member (gx, gy): None outside the grid, else name_grid[gy][gx].
member_fname(grid, width, height, gx, gy) ==
  IF gx >= width \/ gy >= height THEN None ELSE grid[gy][gx]

\* Members (i, j) of the block at (x0, y0) that name a file.
file_members(grid, width, height, S, x0, y0) ==
  {m \in (0..(S - 1)) \X (0..(S - 1)) :
     member_fname(grid, width, height, x0 + m[1], y0 + m[2]) # None}

\* Outcome of the four reads of a file: "ok", or the channel whose
\* Image.open(...).convert(...) raised first.
FileOutcomes(fname) == {"ok"} \cup {f[1] : f \in {g \in FaultyFiles : g[2] = fname}}

\* The outcomes of the reads of the members ms of the block at (x0, y0).
RECURSIVE ReadOutcomes(_, _, _, _, _, _)
ReadOutcomes(ms, grid, width, height, x0, y0) ==
  IF ms = {} THEN {<<>>}
  ELSE LET m == CHOOSE n \in ms : TRUE
       IN  {(m :> o) @@ r :
              o \in FileOutcomes(member_fname(grid, width, height, x0 + m[1], y0 + m[2])),
              r \in ReadOutcomes(ms \ {m}, grid, width, height, x0, y0)}

\* What a member contributes to channel c: the blank for a hole or an
\* out-of-range cell, and for every channel when any of the four reads of the
\* member raised (one try block covers them); else the decoded tile.
member_img(c, fname, outcome) ==
  IF fname = None THEN Blank(Mode(c))
  ELSE IF outcome # "ok" THEN Blank(Mode(c))
  ELSE Tile(c, fname)

\* Mutant: member (i, j) is pasted at offset (j*t, i*t).
paste_member_transposed(canv, i, j, fname, rd) ==
  [c \in Channels |->
     paste(canv[c], member_img(c, fname, IF fname = None THEN "ok" ELSE rd[<<i, j>>]),
           <<j * tile_size, i * tile_size>>)]

\* The four pastes of member (i, j) at offset (i*t, j*t).
paste_member(canv, i, j, fname, rd) ==
  [c \in Channels |->
     paste(canv[c], member_img(c, fname, IF fname = None THEN "ok" ELSE rd[<<i, j>>]),
           <<i * tile_size, j * tile_size>>)]

\* The four canvases after members m .. S*S-1 (for j: for i:) are pasted.
RECURSIVE compose(_, _, _, _, _, _, _, _, _)
compose(canv, m, grid, width, height, S, x0, y0, rd) ==
  IF m >= S * S THEN canv
  ELSE compose(paste_member(canv, m % S, m \div S,
                            member_fname(grid, width, height,
                                         x0 + (m % S), y0 + (m \div S)),
                            rd),
               m + 1, grid, width, height, S, x0, y0, rd)

\* The four canvases of the block at (x0, y0).
block_canvases(grid, width, height, S, x0, y0, rd) ==
  compose([c \in Channels |-> new_canvas(Mode(c), S, tile_size)], 0,
          grid, width, height, S, x0, y0, rd)

\* The channel whose canvas is saved under an output directory.
ChannelOf(dir) == IF dir = "guidance" THEN "synth" ELSE dir

\* Mutant: a canvas that is entirely blank is not saved.
block_outputs_skip_blank(canv, stem) ==
  [p \in {q \in OutDirs \X {stem} :
            \E off \in DOMAIN canv[ChannelOf(q[1])] :
              canv[ChannelOf(q[1])][off].kind = "tile"} |->
     resize(canv[ChannelOf(p[1])],
            IF p[1] = "guidance" THEN guidance_size ELSE tile_size,
            IF p[1] \in {"map", "ins"} THEN "NEAREST" ELSE "LANCZOS")]

\* The downsampled image saved under each output directory.
block_outputs(canv, stem) ==
  [p \in {<<"real", stem>>, <<"map", stem>>, <<"ins", stem>>, <<"guidance", stem>>} |->
     CASE p[1] = "real" -> resize(canv["real"], tile_size, "LANCZOS")
       [] p[1] = "map" -> resize(canv["map"], tile_size, "NEAREST")
       [] p[1] = "ins" -> resize(canv["ins"], tile_size, "NEAREST")
       [] p[1] = "guidance" -> resize(canv["synth"], guidance_size, "LANCZOS")]

\* Mutant: the stem encodes the anchor in grid space.
block_stem_grid_space(a, x0, y0, px, py, n) ==
  IF a.name_mode = "coord" THEN coord_stem(x0, y0, px, py) ELSE seq_stem(n)

\* Mutant: the stem is the running counter in both naming modes.
block_stem_by_count(a, x0, y0, px, py, n) == seq_stem(n)

\* The stem of the block anchored at (x0, y0), the n-th block of the run.
block_stem(a, x0, y0, px, py, n) ==
  IF a.name_mode = "coord"
  THEN coord_stem(x0 \div a.block, y0 \div a.block, px, py)
  ELSE seq_stem(n)

\* The saves of one block and count += 1.
SaveBlock(canv, stem) ==
  /\ real_big' = canv["real"] /\ map_big' = canv["map"]
  /\ ins_big' = canv["ins"] /\ syn_big' = canv["synth"]
  /\ out_files' = block_outputs(canv, stem) @@ out_files
  /\ stems' = Append(stems, stem)
  /\ count' = count + 1

\* Mutant: only blocks that lie entirely inside the grid are visited.
next_anchor_full_only(x0, y0, S, width) ==
  IF x0 + 2 * S <= width THEN <<x0 + S, y0>> ELSE <<0, y0 + S>>

\* for by in range(0, H, S): for bx in range(0, W, S): the anchor after (x0, y0).
next_anchor(x0, y0, S, width) ==
  IF x0 + S < width THEN <<x0 + S, y0>> ELSE <<0, y0 + S>>

ProcessBlock ==
  /\ pc = "blocks"
  /\ by < H /\ bx < W
  /\ \E rd \in ReadOutcomes(file_members(name_grid, W, H, args.block, bx, by),
                           name_grid, W, H, bx, by) :
       /\ reads' = rd
       /\ SaveBlock(block_canvases(name_grid, W, H, args.block, bx, by, rd),
                    block_stem(args, bx, by, pad_x, pad_y, count))
  /\ bx' = next_anchor(bx, by, args.block, W)[1]
  /\ by' = next_anchor(bx, by, args.block, W)[2]
  /\ UNCHANGED <<args, listing, pc, error, common, strategy, W, H, name_grid, pad_x,
                 pad_y, name, xy>>
  /\ UNCHANGED stitch_vars
  /\ UNCHANGED dirs

\* Both range() loops are exhausted: main() prints the totals and returns.
Finish ==
  /\ pc = "blocks"
  /\ ~(by < H /\ bx < W)
  /\ pc' = "done"
  /\ UNCHANGED <<args, listing, error, common, strategy, W, H, name_grid, pad_x, pad_y,
                 bx, by, count, reads, real_big, map_big, ins_big, syn_big, out_files,
                 stems, name, xy>>
  /\ UNCHANGED stitch_vars
  /\ UNCHANGED dirs

Next == EnsurePairs \/ BuildGrid \/ DeterminePadding \/ ProcessBlock \/ Finish

Spec == Init /\ [][Next]_vars

(***************************************************************************)
(* Layout and naming of build_z2_from_z1_tiles_no_real.py                  *)
(***************************************************************************)

\* W = args.tiles_per_row; H = math.ceil(N / W); the names row-major while
\* k < N.
no_real_explicit_grid(fnames, w) ==
  IF w = 0 THEN Raised("ZeroDivisionError")
  ELSE BuiltGrid("explicit", w, ceil_div(Len(fnames), w),
                 [y \in 0..(ceil_div(Len(fnames), w) - 1) |-> [x \in 0..(w - 1) |->
                    IF y * w + x < Len(fnames) THEN fnames[y * w + x + 1] ELSE None]])

\* padded = idxs + [N-1] * (W*H - N); order_list[k] = common[padded[k]] in
\* both branches of the order flag.
no_real_order_list(fnames, width, height) ==
  [k \in 1..(IF width * height > Len(fnames) THEN width * height ELSE Len(fnames)) |->
     fnames[IF k <= Len(fnames) THEN k ELSE Len(fnames)]]

\* approx_w = max(S, int(math.sqrt(N))); H = math.ceil(N / W); order_list
\* laid out row-major.
no_real_square_grid(fnames, approx_w) ==
  BuiltGrid("square", approx_w, ceil_div(Len(fnames), approx_w),
            [y \in 0..(ceil_div(Len(fnames), approx_w) - 1) |-> [x \in 0..(approx_w - 1) |->
               no_real_order_list(fnames, approx_w,
                                  ceil_div(Len(fnames), approx_w))[y * approx_w + x + 1]]])

\* The strategy dispatch on the result r of reorder_with_coordinates, whose
\* text is that of the program with real imagery.
no_real_select_grid(r, fnames, a) ==
  IF r.tag = "ValueError" THEN r
  ELSE IF r.tag = "grid" THEN BuiltGrid("coord", r.width, r.height, r.grid)
  ELSE IF a.tiles_per_row # NoArg
       THEN no_real_explicit_grid(fnames, ValueOf(a.tiles_per_row))
  ELSE no_real_square_grid(fnames, Max({a.block, isqrt(Len(fnames))}))

no_real_build_grid(fnames, a) ==
  no_real_select_grid(reorder_with_coordinates(fnames), fnames, a)

\* Mutant: the sample is the last cell that holds a name.
no_real_sample_last(grid, width, height) ==
  IF Len(ordered_cells(grid, width, height, 0)) = 0 THEN None
  ELSE ordered_cells(grid, width, height, 0)[Len(ordered_cells(grid, width, height, 0))]

\* for row in name_grid: for cell in row: if cell: sample = cell; break.
no_real_sample(grid, width, height) ==
  first_cell(SelectSeq(ordered_cells(grid, width, height, 0), LAMBDA cell : Len(cell) > 0))

\* pad_x = pad_y = 0, then the segment lengths of the sample when
\* len(parts) >= 2 and both last segments are digit strings.
no_real_sample_pads(sample) ==
  IF sample = None THEN [x |-> 0, y |-> 0]
  ELSE IF /\ Len(split(splitext_root(sample), <<>>)) >= 2
          /\ isdigit(split(splitext_root(sample), <<>>)
                       [Len(split(splitext_root(sample), <<>>)) - 1])
          /\ isdigit(split(splitext_root(sample), <<>>)
                       [Len(split(splitext_root(sample), <<>>))])
       THEN [x |-> Len(split(splitext_root(sample), <<>>)
                         [Len(split(splitext_root(sample), <<>>)) - 1]),
             y |-> Len(split(splitext_root(sample), <<>>)
                         [Len(split(splitext_root(sample), <<>>))])]
       ELSE [x |-> 0, y |-> 0]

\* if pad_x == 0: pad_x = len(str(max(1, W//S))); likewise pad_y; then
\* coord_digits, when given, replaces both.
no_real_padding(grid, width, height, a) ==
  IF a.coord_digits # NoArg
  THEN [x |-> ValueOf(a.coord_digits), y |-> ValueOf(a.coord_digits)]
  ELSE [x |-> IF no_real_sample_pads(no_real_sample(grid, width, height)).x = 0
              THEN Len(str(Max({1, width \div a.block})))
              ELSE no_real_sample_pads(no_real_sample(grid, width, height)).x,
        y |-> IF no_real_sample_pads(no_real_sample(grid, width, height)).y = 0
              THEN Len(str(Max({1, height \div a.block})))
              ELSE no_real_sample_pads(no_real_sample(grid, width, height)).y]

\* stem = f"{mx:0{pad_x}d}_{my:0{pad_y}d}.png" with mx = bx // S, my = by // S,
\* or f"{count:05d}.png".
no_real_stem(a, x0, y0, px, py, n) ==
  IF a.name_mode = "coord"
  THEN zfill(x0 \div a.block, px) \o <<"_">> \o zfill(y0 \div a.block, py) \o Ext
  ELSE zfill(n, 5) \o Ext

\* The stems in the order of for by in range(0, H, S): for bx in range(0, W, S),
\* count running from 0.
no_real_stems(a, width, height, px, py) ==
  [k \in 1..(ceil_div(width, a.block) * ceil_div(height, a.block)) |->
     no_real_stem(a, ((k - 1) % ceil_div(width, a.block)) * a.block,
                  ((k - 1) \div ceil_div(width, a.block)) * a.block, px, py, k - 1)]

(***************************************************************************)
(* One call of parse_xy_from_name on an arbitrary listed name              *)
(***************************************************************************)

\* Longest stem (file name without ".png") given to the parser.
MaxStemLen == 6

StemAlphabet == {"a", "0", "1", "_", ".", Sup2}

\* The stems of exactly n characters.
Stems(n) == [1..n -> StemAlphabet]

ParseInit ==
  /\ args = [block |-> 3, tiles_per_row |-> NoArg, order |-> "row",
             name_mode |-> "coord", coord_digits |-> NoArg]
  /\ listing = [c \in Channels |-> {}]
  /\ disk = NoFunction
  /\ \E n \in 0..MaxStemLen : \E stem \in Stems(n) : name = stem \o Ext
  /\ xy = Unset
  /\ RunInit

ParseName ==
  /\ pc = "start"
  /\ xy = Unset
  /\ xy' = parse_xy_from_name(name)
  /\ UNCHANGED <<args, listing, pc, error, common, strategy, W, H, name_grid, pad_x,
                 pad_y, bx, by, count, reads, real_big, map_big, ins_big, syn_big,
                 out_files, stems, name>>
  /\ UNCHANGED stitch_vars
  /\ UNCHANGED dirs

SpecParse == ParseInit /\ [][ParseName]_vars

(***************************************************************************)
(* Stitch mode: stitch_tiles() of stitch_full_mosaic.py                    *)
(***************************************************************************)

\* The tile set 0_0, 1_0, 0_1, 1_1; the stitcher is also run on its subsets.
TwoByTwo ==
  {<<"0", "_", "0">> \o Ext, <<"1", "_", "0">> \o Ext,
   <<"0", "_", "1">> \o Ext, <<"1", "_", "1">> \o Ext}

StitchLists == NameLists \cup (SUBSET TwoByTwo)

\* Size (width, height) and pixel format of a tile file.
TileFormats ==
  {[size |-> <<256, 256>>, mode |-> "RGB"], [size |-> <<128, 64>>, mode |-> "L"]}

\* Tiles of tiles_dir whose Image.open may raise.
UnreadableTiles ==
  {<<"a", "_", "0", "_", "0">> \o Ext, PlainName(1), <<"0", "_", "1">> \o Ext}

\* out_path as (dirname, basename); the dirname is empty for a bare file name.
OutPaths == {<<"out", "mosaic.png">>, <<"", "mosaic.png">>}

StitchArgSets ==
  [tiles_per_row : TilesPerRowValues, order : {"row", "col"}, out_path : OutPaths]

StitchInit ==
  /\ args \in StitchArgSets
  /\ \E L \in StitchLists :
       /\ listing = [c \in {"tiles"} |-> L]
       /\ disk \in [L -> TileFormats]
  /\ name = None /\ xy = Unset
  /\ RunInit

\* fnames = read_pngs_sorted(tiles_dir); SystemExit when there is none.
StitchList ==
  /\ pc = "start"
  /\ \E entries \in ListOrders(listing["tiles"]) :
       tile_names' = read_pngs_sorted(entries)
  /\ IF Len(tile_names') = 0
     THEN pc' = "exit" /\ error' = "SystemExit"
     ELSE pc' = "listed" /\ error' = error
  /\ UNCHANGED <<args, listing, common, strategy, W, H, name_grid, pad_x, pad_y, bx, by,
                 count, reads, real_big, map_big, ins_big, syn_big, out_files, stems,
                 name, xy, dirs, img, disk, ordered, im0, mosaic, cx, cy>>

\* for x, y, fname in coords: if 0 <= x < width and 0 <= y < height: grid[y][x] = fname.
RECURSIVE stitch_place_coords(_, _, _, _, _)
stitch_place_coords(grid, coords, k, width, height) ==
  IF k > Len(coords) THEN grid
  ELSE stitch_place_coords(
         IF /\ 0 <= coords[k].x /\ coords[k].x < width
            /\ 0 <= coords[k].y /\ coords[k].y < height
         THEN [grid EXCEPT ![coords[k].y][coords[k].x] = coords[k].f] ELSE grid,
         coords, k + 1, width, height)

stitch_grid_of_size(coords, width, height) ==
  GridResult(ordered_cells(stitch_place_coords(empty_grid(width, height), coords, 1,
                                               width, height),
                           width, height, 0),
             width, height,
             stitch_place_coords(empty_grid(width, height), coords, 1, width, height))

\* reorder_with_coordinates of the stitcher.
stitch_reorder_with_coordinates(fnames) ==
  IF \E k \in 1..Len(fnames) : parse_xy_from_name(fnames[k]).tag = "ValueError"
  THEN Raised("ValueError")
  ELSE IF Len(coords_of(fnames)) = 0 THEN NoCoord
  ELSE stitch_grid_of_size(coords_of(fnames),
                           Max({coords_of(fnames)[k].x : k \in 1..Len(coords_of(fnames))}) + 1,
                           Max({coords_of(fnames)[k].y : k \in 1..Len(coords_of(fnames))}) + 1)

\* order_list of build_grid_without_coords: both branches of the order flag
\* append fnames[padded[k]] for k = 0, 1, ..., W*H-1.
stitch_order_list(fnames, width, height, order) ==
  IF order = "row"
  THEN [k \in 1..(IF width > 0 /\ height > 0 THEN width * height ELSE 0) |->
          fnames[padded_at(Len(fnames), k - 1) + 1]]
  ELSE [k \in 1..(IF width > 0 /\ height > 0 THEN width * height ELSE 0) |->
          fnames[padded_at(Len(fnames), k - 1) + 1]]

\* The padded list laid out row-major in a grid of the given width.
stitch_fallback(fnames, width, order) ==
  GridResult(stitch_order_list(fnames, width, ceil_div(Len(fnames), width), order),
             width, ceil_div(Len(fnames), width),
             fill_row_major(stitch_order_list(fnames, width,
                                              ceil_div(Len(fnames), width), order),
                            width, ceil_div(Len(fnames), width)))

\* W = tiles_per_row if given, else max(1, int(sqrt(N))); H = ceil(N / W).
build_grid_without_coords(fnames, tiles_per_row, order) ==
  IF tiles_per_row # NoArg
  THEN IF ValueOf(tiles_per_row) = 0 THEN Raised("ZeroDivisionError")
       ELSE stitch_fallback(fnames, ValueOf(tiles_per_row), order)
  ELSE stitch_fallback(fnames, Max({1, isqrt(Len(fnames))}), order)

\* The dispatch of stitch_tiles on the result r of reorder_with_coordinates.
stitch_select(r, fnames, tiles_per_row, order) ==
  IF r.tag = "ValueError" THEN r
  ELSE IF r.tag = "grid" THEN r
  ELSE build_grid_without_coords(fnames, tiles_per_row, order)

\* ordered, W, H, grid of stitch_tiles.
stitch_grid(fnames, tiles_per_row, order) ==
  stitch_select(stitch_reorder_with_coordinates(fnames), fnames, tiles_per_row, order)

\* The branch that built the stitcher's grid.
stitch_strategy(fnames, tiles_per_row) ==
  IF stitch_reorder_with_coordinates(fnames).tag = "grid" THEN "coord"
  ELSE IF tiles_per_row # NoArg THEN "explicit" ELSE "square"

StitchTakeGrid(g) ==
  IF g.tag # "grid"
  THEN /\ pc' = "crashed" /\ error' = g.tag
       /\ UNCHANGED <<ordered, W, H, name_grid, strategy>>
  ELSE /\ pc' = "grid" /\ error' = error
       /\ ordered' = g.ordered
       /\ W' = g.width /\ H' = g.height
       /\ name_grid' = g.grid
       /\ strategy' = stitch_strategy(tile_names, args.tiles_per_row)

StitchGrid ==
  /\ pc = "listed"
  /\ StitchTakeGrid(stitch_grid(tile_names, args.tiles_per_row, args.order))
  /\ UNCHANGED <<args, listing, common, pad_x, pad_y, bx, by, count, reads, real_big,
                 map_big, ins_big, syn_big, out_files, stems, name, xy, dirs, img, disk,
                 tile_names, im0, mosaic, cx, cy>>

\* Whether Image.open of a tile succeeds.
OpenOutcomes(fname) == IF fname \in UnreadableTiles THEN {"ok", "failed"} ELSE {"ok"}

\* Mutant: the reference tile is the last of the ordered names.
reference_name_last(names) == names[Len(names)]

\* first_path = os.path.join(tiles_dir, ordered[0]).
reference_name(names) == names[1]

tile_w == im0.size[1]
tile_h == im0.size[2]

\* Image.new(mode, (full_w, full_h)): nothing pasted yet.
new_mosaic(mode, full_w, full_h) ==
  [mode |-> mode, size |-> <<full_w, full_h>>, pastes |-> NoFunction]

\* The reference tile is opened outside any try block: a failure ends the run.
StitchReference ==
  /\ pc = "grid"
  /\ \E o \in OpenOutcomes(reference_name(ordered)) :
       IF o = "failed"
       THEN /\ pc' = "crashed" /\ error' = "OSError"
            /\ UNCHANGED <<im0, mosaic>>
       ELSE /\ pc' = "paste" /\ error' = error
            /\ im0' = [name |-> reference_name(ordered),
                       size |-> disk[reference_name(ordered)].size,
                       mode |-> disk[reference_name(ordered)].mode]
            /\ mosaic' = new_mosaic(disk[reference_name(ordered)].mode,
                                    W * disk[reference_name(ordered)].size[1],
                                    H * disk[reference_name(ordered)].size[2])
  /\ cx' = 0 /\ cy' = 0
  /\ UNCHANGED <<args, listing, common, strategy, W, H, name_grid, pad_x, pad_y, bx, by,
                 count, reads, real_big, map_big, ins_big, syn_big, out_files, stems,
                 name, xy, dirs, img, disk, tile_names, ordered>>

\* Mutant: the tile is pasted at its own size.
pasted_size_as_is(size, ref) == size

\* if tile.size != (tile_w, tile_h): tile = tile.resize((tile_w, tile_h), BILINEAR).
pasted_size(size, ref) == IF size # ref THEN ref ELSE size

\* mosaic.paste(tile, (x * tile_w, y * tile_h)).
stitch_paste(canvas, fname, fmt, ref, x0, y0) ==
  [canvas EXCEPT !.pastes =
     (<<x0 * ref[1], y0 * ref[2]>> :>
        [name |-> fname, size |-> pasted_size(fmt.size, ref),
         resized |-> fmt.size # ref]) @@ @]

\* for y in range(H): for x in range(W): the cell after (x0, y0).
next_cell(x0, y0, width) == IF x0 + 1 < width THEN <<x0 + 1, y0>> ELSE <<0, y0 + 1>>

\* One iteration of the paste loop: a hole is skipped, a tile that cannot be
\* read is reported and skipped, any other tile is pasted.
StitchCell ==
  /\ pc = "paste"
  /\ cy < H
  /\ IF name_grid[cy][cx] = None
     THEN UNCHANGED <<mosaic, reads>>
     ELSE \E o \in OpenOutcomes(name_grid[cy][cx]) :
            /\ reads' = (<<cx, cy>> :> o) @@ reads
            /\ mosaic' = IF o = "ok"
                         THEN stitch_paste(mosaic, name_grid[cy][cx],
                                           disk[name_grid[cy][cx]], im0.size, cx, cy)
                         ELSE mosaic
  /\ cx' = next_cell(cx, cy, W)[1]
  /\ cy' = next_cell(cx, cy, W)[2]
  /\ UNCHANGED <<args, listing, pc, error, common, strategy, W, H, name_grid, pad_x,
                 pad_y, bx, by, count, real_big, map_big, ins_big, syn_big, out_files,
                 stems, name, xy, dirs, img, disk, tile_names, ordered, im0>>

\* os.makedirs(os.path.dirname(out_path), exist_ok=True); mosaic.save(out_path).
\* os.makedirs("") raises FileNotFoundError when out_path has no directory part.
StitchSave ==
  /\ pc = "paste"
  /\ ~(cy < H)
  /\ IF args.out_path[1] = ""
     THEN /\ pc' = "crashed" /\ error' = "FileNotFoundError"
          /\ UNCHANGED <<dirs, out_files>>
     ELSE /\ pc' = "done" /\ error' = error
          /\ dirs' = dirs \cup {args.out_path[1]}
          /\ out_files' = (args.out_path :> mosaic) @@ out_files
  /\ UNCHANGED <<args, listing, common, strategy, W, H, name_grid, pad_x, pad_y, bx, by,
                 count, reads, real_big, map_big, ins_big, syn_big, stems, name, xy,
                 img, disk, tile_names, ordered, im0, mosaic, cx, cy>>

StitchNext == StitchList \/ StitchGrid \/ StitchReference \/ StitchCell \/ StitchSave

SpecStitch == StitchInit /\ [][StitchNext]_vars

(***************************************************************************)
(* The tiler, tile_image() of "Tile PNG 256.py", followed by the stitcher  *)
(***************************************************************************)

TILE_SIZE == 256

\* Widths and heights of the image that is tiled.
ImageWidths == {256, 300, 512}
ImageHeights == {256, 512, 600}

Min(a, b) == IF a < b THEN a ELSE b

\* x_tiles = (width + tile_size - 1) // tile_size, and y_tiles likewise.
tiles_along(extent, t) == (extent + t - 1) \div t

\* tile_filename = f"{img_name}_{x}_{y}.png".
tile_filename(img_name, tx, ty) == img_name \o <<"_">> \o str(tx) \o <<"_">> \o str(ty) \o Ext

\* (left, upper, right, lower) of the crop of tile (tx, ty).
crop_box(tx, ty, t, width, height) ==
  <<tx * t, ty * t, Min(tx * t + t, width), Min(ty * t + t, height)>>

\* The tile file saved for (tx, ty): its size, mode and the box it was cut from.
tile_file(tx, ty, t, width, height) ==
  [size |-> <<crop_box(tx, ty, t, width, height)[3] - crop_box(tx, ty, t, width, height)[1],
              crop_box(tx, ty, t, width, height)[4] - crop_box(tx, ty, t, width, height)[2]>>,
   mode |-> "RGBA",
   crop |-> crop_box(tx, ty, t, width, height),
   cell |-> <<tx, ty>>]

\* The (x, y) of the tiles of an image.
tile_cells(width, height, t) ==
  (0..(tiles_along(width, t) - 1)) \X (0..(tiles_along(height, t) - 1))

\* The tile whose file name is f.
cell_named(f, img_name, width, height, t) ==
  CHOOSE c \in tile_cells(width, height, t) : tile_filename(img_name, c[1], c[2]) = f

RoundTripInit ==
  /\ args = [tiles_per_row |-> NoArg, order |-> "row", out_path |-> <<"out", "mosaic.png">>]
  /\ listing = [c \in {"tiles"} |-> {}]
  /\ disk = NoFunction
  /\ name = None /\ xy = Unset
  /\ error = ""
  /\ common = <<>>
  /\ strategy = ""
  /\ W = 0 /\ H = 0
  /\ name_grid = NoFunction
  /\ pad_x = 0 /\ pad_y = 0
  /\ bx = 0 /\ by = 0
  /\ count = 0
  /\ reads = NoFunction
  /\ real_big = NoFunction /\ map_big = NoFunction
  /\ ins_big = NoFunction /\ syn_big = NoFunction
  /\ out_files = NoFunction
  /\ stems = <<>>
  /\ dirs = {}
  /\ tile_names = <<>>
  /\ ordered = <<>>
  /\ im0 = NoFunction
  /\ mosaic = NoFunction
  /\ cx = 0 /\ cy = 0
  /\ pc = "tiler"
  /\ \E width \in ImageWidths, height \in ImageHeights :
       img = [name |-> <<"b">>, size |-> <<width, height>>]

\* tile_image: every tile of the image is cropped and saved.
TileImage ==
  /\ pc = "tiler"
  /\ listing' = [c \in {"tiles"} |->
                   {tile_filename(img.name, c2[1], c2[2]) :
                      c2 \in tile_cells(img.size[1], img.size[2], TILE_SIZE)}]
  /\ disk' = [f \in listing'["tiles"] |->
                tile_file(cell_named(f, img.name, img.size[1], img.size[2], TILE_SIZE)[1],
                          cell_named(f, img.name, img.size[1], img.size[2], TILE_SIZE)[2],
                          TILE_SIZE, img.size[1], img.size[2])]
  /\ pc' = "tiled"
  /\ UNCHANGED <<args, error, common, strategy, W, H, name_grid, pad_x, pad_y, bx, by,
                 count, reads, real_big, map_big, ins_big, syn_big, out_files, stems,
                 name, xy, dirs, img, tile_names, ordered, im0, mosaic, cx, cy>>

\* Between the two programs some tiles go missing; the stitcher then starts.
LoseTiles ==
  /\ pc = "tiled"
  /\ \E kept \in SUBSET listing["tiles"] :
       /\ listing' = [c \in {"tiles"} |-> kept]
       /\ disk' = [f \in kept |-> disk[f]]
  /\ pc' = "start"
  /\ UNCHANGED <<args, error, common, strategy, W, H, name_grid, pad_x, pad_y, bx, by,
                 count, reads, real_big, map_big, ins_big, syn_big, out_files, stems,
                 name, xy, dirs, img, tile_names, ordered, im0, mosaic, cx, cy>>

RoundTripNext == TileImage \/ LoseTiles \/ StitchNext

SpecRoundTrip == RoundTripInit /\ [][RoundTripNext]_vars

(***************************************************************************)
(* Properties                                                              *)
(***************************************************************************)

GridBuilt == pc \in {"grid", "blocks", "done"}

Names(fnames) == {fnames[k] : k \in 1..Len(fnames)}

\* The names of the list on which the parser returns a coordinate.
Parsed(fnames) == {f \in Names(fnames) : parse_xy_from_name(f).tag = "xy"}

\* The names of the list on which the parser raises.
Raising(fnames) == {f \in Names(fnames) : parse_xy_from_name(f).tag = "ValueError"}

\* The cells <<x, y>> of the grid that hold name f.
CellsOf(f) ==
  {c \in (0..(W - 1)) \X (0..(H - 1)) : name_grid[c[2]][c[1]] = f}

\* C1: strategy selection.  In every run that builds a grid: if some name of
\* the list parses, the grid comes from coordinate inference, whatever
\* tiles_per_row is; a cell holds a name only if that name parses to the
\* cell's coordinate, so a name that does not parse is in no cell and a cell
\* no parsed name maps to is a hole; the explicit-width and the square
\* fallback are taken only when no name parses, explicit width first.  A run
\* ends without a grid only on a parser error or a zero tiles_per_row.
C1_StrategySelection ==
  /\ GridBuilt =>
       /\ (Parsed(common) # {}) <=> (strategy = "coord")
       /\ strategy = "explicit" <=> (Parsed(common) = {} /\ args.tiles_per_row # NoArg)
       /\ strategy = "square" <=> (Parsed(common) = {} /\ args.tiles_per_row = NoArg)
       /\ strategy = "coord" =>
            \A x \in 0..(W - 1), y \in 0..(H - 1) :
              /\ name_grid[y][x] # None =>
                   /\ name_grid[y][x] \in Parsed(common)
                   /\ parse_xy_from_name(name_grid[y][x]) = Coord(x, y)
              /\ name_grid[y][x] = None =>
                   \A f \in Parsed(common) : parse_xy_from_name(f) # Coord(x, y)
  /\ pc = "crashed" =>
       \/ error = "ValueError" /\ Raising(common) # {}
       \/ /\ error = "ZeroDivisionError"
          /\ Parsed(common) = {} /\ args.tiles_per_row = Arg(0)

\* A grid built by coordinate inference although tiles_per_row is supplied,
\* from a list with a name that does not parse, and with a hole.
C1_Witness ==
  /\ pc = "grid" /\ strategy = "coord"
  /\ args.tiles_per_row = Arg(2)
  /\ Names(common) \ Parsed(common) # {}
  /\ \E x \in 0..(W - 1), y \in 0..(H - 1) : name_grid[y][x] = None

\* C2: the grid of coordinate inference has width = (largest parsed x) + 1 and
\* height = (largest parsed y) + 1 over the names that parse, and is exactly
\* height rows of width cells.
C2_GridSize ==
  (GridBuilt /\ strategy = "coord") =>
    /\ W = Max({parse_xy_from_name(f).x : f \in Parsed(common)}) + 1
    /\ H = Max({parse_xy_from_name(f).y : f \in Parsed(common)}) + 1
    /\ DOMAIN name_grid = 0..(H - 1)
    /\ \A y \in 0..(H - 1) : DOMAIN name_grid[y] = 0..(W - 1)

\* A coordinate grid that is not square, built from a list with an unparsed name.
C2_Witness ==
  /\ pc = "grid" /\ strategy = "coord"
  /\ W # H /\ W > 1
  /\ Names(common) \ Parsed(common) # {}

\* A non-empty string of the decimal digits 0-9.
IsDecimal(s) == Len(s) > 0 /\ \A k \in 1..Len(s) : s[k] \in DecimalChars

\* name = <prefix>_<X>_<Y>.<ext> with X at i+1..j-1, Y at j+1..d-1, both
\* decimal, and <ext> the dot-free text after position d.  With i = 0 the
\* name is <X>_<Y>.<ext>: the prefix and its underscore are absent, as in the
\* tile names 0_0, 1_0, 0_1, 1_1 and in the stems block mode writes.
HasForm(n, i, j, d) ==
  /\ i < j /\ j < d /\ d < Len(n)
  /\ (i = 0 \/ n[i] = "_") /\ n[j] = "_" /\ n[d] = "."
  /\ \A k \in (d + 1)..Len(n) : n[k] # "."
  /\ IsDecimal(SubSeq(n, i + 1, j - 1))
  /\ IsDecimal(SubSeq(n, j + 1, d - 1))

MatchesForm(n) == \E i \in 0..Len(n), j, d \in 1..Len(n) : HasForm(n, i, j, d)

\* C3: a name [<prefix>_]<X>_<Y>.<ext> with decimal X and Y parses to the
\* integers (X, Y); a name of any other shape gives None: never an error,
\* never a stand-in coordinate.
C3_ParserContract ==
  xy # Unset =>
    /\ \A i \in 0..Len(name), j, d \in 1..Len(name) :
         HasForm(name, i, j, d) =>
           xy = Coord(int(SubSeq(name, i + 1, j - 1)), int(SubSeq(name, j + 1, d - 1)))
    /\ ~MatchesForm(name) => xy = NoCoord

\* The file name without its ".png".
StemOf(n) == SubSeq(n, 1, Len(n) - Len(Ext))

\* Position of the last underscore of s, 0 if it has none.
LastUnderscore(s) == Max({0} \cup {k \in 1..Len(s) : s[k] = "_"})

\* The text after the last underscore, and the text before it.
AfterLast(s) == SubSeq(s, LastUnderscore(s) + 1, Len(s))
BeforeLast(s) == SubSeq(s, 1, LastUnderscore(s) - 1)

\* The non-empty underscore-separated segments of a stem.
NonEmptySegments(s) == SelectSeq(split(s, <<>>), LAMBDA p : Len(p) > 0)

\* C4 (as claimed): a coordinate is returned iff the last two NON-EMPTY
\* segments of the stem are both decimal, empty segments being skipped.
C4_SkipsEmptySegments ==
  xy # Unset =>
    LET ne == NonEmptySegments(StemOf(name))
    IN  (xy.tag = "xy") <=>
          /\ Len(ne) >= 2
          /\ IsDecimal(ne[Len(ne) - 1])
          /\ IsDecimal(ne[Len(ne)])

\* C4 (amended): the parser decides on the last two segments, empty or not:
\* the text after the last underscore and the text between the two last
\* underscores (or from the start of the stem).  A coordinate is returned iff
\* the stem has an underscore and both are non-empty decimal strings, and
\* then it is their integer values; an empty one gives no coordinate.
C4_LastTwoSegments ==
  xy # Unset =>
    LET s == StemOf(name)
        y_seg == AfterLast(s)
        x_seg == AfterLast(BeforeLast(s))
    IN  /\ (xy.tag = "xy") <=>
             (LastUnderscore(s) > 0 /\ IsDecimal(x_seg) /\ IsDecimal(y_seg))
        /\ xy.tag = "xy" => xy = Coord(int(x_seg), int(y_seg))

\* A stem with a doubled underscore between two digit runs, or with a
\* trailing underscore after them, has been parsed to no coordinate.
C4_Witness ==
  /\ xy = NoCoord
  /\ \/ StemOf(name) = <<"a", "_", "1", "_", "_", "0">>
     \/ StemOf(name) = <<"a", "_", "1", "_", "0", "_">>

\* The parsed names that share the coordinate of f.
SameCoord(f) ==
  {g \in Parsed(common) : parse_xy_from_name(g) = parse_xy_from_name(f)}

\* C5: duplicate coordinates.  In a grid built by coordinate inference, of
\* the names that parse to one (x, y) the last in lexicographic order holds
\* cell (x, y) and only that cell, the others are in no cell, and the run has
\* raised no error.
C5_DuplicateLastWins ==
  (GridBuilt /\ strategy = "coord") =>
    /\ error = ""
    /\ \A f \in Parsed(common) :
         IF \A g \in SameCoord(f) \ {f} : StrLess(g, f)
         THEN CellsOf(f) = {<<parse_xy_from_name(f).x, parse_xy_from_name(f).y>>}
         ELSE CellsOf(f) = {}

\* a_1_2.png and b_01_2.png are both listed; cell (1, 2) holds b_01_2.png.
C5_Witness ==
  /\ pc = "grid"
  /\ {<<"a", "_", "1", "_", "2">> \o Ext, <<"b", "_", "0", "1", "_", "2">> \o Ext}
       \subseteq Names(common)
  /\ name_grid[2][1] = <<"b", "_", "0", "1", "_", "2">> \o Ext

\* The list is in strictly ascending lexicographic order.
IsSorted(fnames) == \A k \in 1..(Len(fnames) - 1) : StrLess(fnames[k], fnames[k + 1])

\* C6: explicit-width fallback.  When no name parses and tiles_per_row = w >= 1
\* is given, the grid is built with width w and height ceil(N / w), the name
\* at 0-based position k of the sorted list is in cell (k mod w, k div w), and
\* each of the N names is in exactly one cell.
C6_ExplicitWidth ==
  LET N == Len(common) IN
  /\ (GridBuilt /\ Parsed(common) = {} /\ args.tiles_per_row # NoArg) =>
       strategy = "explicit"
  /\ (GridBuilt /\ strategy = "explicit") =>
       /\ ValueOf(args.tiles_per_row) >= 1
       /\ W = ValueOf(args.tiles_per_row)
       /\ H * W >= N /\ (H - 1) * W < N
       /\ IsSorted(common)
       /\ \A k \in 0..(N - 1) : name_grid[k \div W][k % W] = common[k + 1]
       /\ \A f \in Names(common) : Cardinality(CellsOf(f)) = 1

\* Five coordinate-free names laid out two per row: three rows.
C6_Witness ==
  /\ pc = "grid" /\ strategy = "explicit"
  /\ Len(common) = 5 /\ W = 2 /\ H = 3

\* C7: square-approximation fallback.  When no name parses and tiles_per_row
\* is absent, width = max(S, floor(sqrt(N))), height = ceil(N / width), the
\* grid has no hole, every name but the last is in exactly one cell and the
\* last name is in exactly width * height - N + 1 cells.
C7_SquareFallback ==
  LET N == Len(common)
      S == args.block
  IN
  /\ (GridBuilt /\ Parsed(common) = {} /\ args.tiles_per_row = NoArg) =>
       strategy = "square"
  /\ (GridBuilt /\ strategy = "square") =>
       /\ \E r \in 0..N :
            /\ r * r <= N /\ (r + 1) * (r + 1) > N
            /\ W = IF S > r THEN S ELSE r
       /\ H * W >= N /\ (H - 1) * W < N
       /\ \A x \in 0..(W - 1), y \in 0..(H - 1) : name_grid[y][x] # None
       /\ \A k \in 1..(N - 1) : Cardinality(CellsOf(common[k])) = 1
       /\ Cardinality(CellsOf(common[N])) = W * H - N + 1

\* Five names, block factor 1: a 2 x 3 grid whose last name fills two cells.
C7_Witness ==
  /\ pc = "grid" /\ strategy = "square"
  /\ Len(common) = 5 /\ args.block = 1 /\ W = 2 /\ H = 3

\* C8 (as claimed): in the square fallback the padded name at position k is in
\* cell (k mod W, k div W) with order = row and in cell (k div H, k mod H) with
\* order = col.
C8_OrderFlag ==
  (GridBuilt /\ strategy = "square") =>
    \A k \in 0..(W * H - 1) :
      IF args.order = "row"
      THEN name_grid[k \div W][k % W] = common[padded_at(Len(common), k) + 1]
      ELSE name_grid[k % H][k \div H] = common[padded_at(Len(common), k) + 1]

\* The least n with n * b >= a, for a >= 1 and b >= 1.
CeilOf(a, b) == CHOOSE n \in 1..a : n * b >= a /\ (n - 1) * b < a

\* The files written so far under one output directory.
FilesIn(dir) == {p \in DOMAIN out_files : p[1] = dir}

\* C9: block iteration.  The anchors are visited row by row in steps of S from
\* (0, 0): while a block is pending its anchor (bx, by) is a pair of multiples
\* of S inside the grid and is the count-th anchor in that order, so that each
\* anchor is processed once; the loop can always take a step; and when it ends
\* ceil(W / S) * ceil(H / S) blocks have been processed and as many files are
\* in each of the four output directories.
C9_BlockIteration ==
  LET S == args.block IN
  /\ (pc = "blocks" /\ count = 0) => (bx = 0 /\ by = 0)
  /\ (pc = "blocks" /\ by < H) =>
       /\ bx % S = 0 /\ by % S = 0
       /\ 0 <= bx /\ bx < W /\ 0 <= by
       /\ count = (by \div S) * CeilOf(W, S) + (bx \div S)
       /\ ENABLED ProcessBlock
  /\ (pc = "blocks" /\ ~(by < H)) =>
       /\ count = CeilOf(W, S) * CeilOf(H, S)
       /\ ENABLED Finish
  /\ pc = "done" =>
       /\ count = CeilOf(W, S) * CeilOf(H, S)
       /\ Len(stems) = count
       /\ \A dir \in {"real", "map", "ins", "guidance"} :
            Cardinality(FilesIn(dir)) = count

\* A 3 x 2 grid with S = 2: two blocks, the second one partial.
C9_Witness ==
  /\ pc = "done" /\ args.block = 2 /\ W = 3 /\ H = 2 /\ count = 2

\* The block member (i, j) of the pending block is outside the grid or a hole.
IsHole(i, j) ==
  bx + i >= W \/ by + j >= H \/ name_grid[by + j][bx + i] = None

\* Every offset of the four canvases just composed holds the blank tile.
AllBlank ==
  /\ \A off \in DOMAIN real_big' : real_big'[off] = Blank("RGB")
  /\ \A off \in DOMAIN map_big' : map_big'[off] = Blank("L")
  /\ \A off \in DOMAIN ins_big' : ins_big'[off] = Blank("L")
  /\ \A off \in DOMAIN syn_big' : syn_big'[off] = Blank("RGB")

C10_Step ==
  LET S == args.block IN
  count' = count + 1 =>
    /\ DOMAIN real_big' = Offsets(S, tile_size) /\ DOMAIN map_big' = Offsets(S, tile_size)
    /\ DOMAIN ins_big' = Offsets(S, tile_size) /\ DOMAIN syn_big' = Offsets(S, tile_size)
    /\ \A i \in 0..(S - 1), j \in 0..(S - 1) :
         IsHole(i, j) =>
           /\ real_big'[<<i * tile_size, j * tile_size>>] = Blank("RGB")
           /\ map_big'[<<i * tile_size, j * tile_size>>] = Blank("L")
           /\ ins_big'[<<i * tile_size, j * tile_size>>] = Blank("L")
           /\ syn_big'[<<i * tile_size, j * tile_size>>] = Blank("RGB")
    /\ (\A i \in 0..(S - 1), j \in 0..(S - 1) : IsHole(i, j)) => AllBlank

\* C10: holes and out-of-range members.  In every block step, a member
\* (bx + i, by + j) that lies outside the grid or is a hole leaves the blank
\* tile at offset (i * t, j * t) of each of the four canvases, and a block all
\* of whose members are such has four entirely blank canvases.
C10_HolesBlank == [][C10_Step]_vars

\* The second block of the 2 x 3 grid of a_1_2.png alone, S = 2: member (0, 0)
\* is a hole, member (1, 0) is the tile, members (0, 1), (1, 1) lie below the
\* grid.
C10_Witness ==
  /\ count = 2 /\ args.block = 2 /\ W = 2 /\ H = 3
  /\ name_grid[2][0] = None /\ name_grid[2][1] # None
  /\ real_big[<<0, 0>>] = Blank("RGB")
  /\ real_big[<<tile_size, 0>>].kind = "tile"
  /\ real_big[<<0, tile_size>>] = Blank("RGB")
  /\ real_big[<<tile_size, tile_size>>] = Blank("RGB")

\* The canvas of a channel after the step.
CanvasAfter(c) ==
  CASE c = "real" -> real_big' [] c = "map" -> map_big'
    [] c = "ins" -> ins_big' [] c = "synth" -> syn_big'

\* C11 (as claimed): in every block step, a member whose read raised in one
\* channel has the blank tile at its offset in that channel only; in every
\* channel whose file is readable the decoded tile is at that offset.
C11_Step ==
  count' = count + 1 =>
    \A m \in DOMAIN reads' :
      reads'[m] # "ok" =>
        \A c \in Channels :
          CanvasAfter(c)[<<m[1] * tile_size, m[2] * tile_size>>] =
            IF c = reads'[m] THEN Blank(Mode(c))
            ELSE Tile(c, name_grid[by + m[2]][bx + m[1]])

C11_ChannelsIndependent == [][C11_Step]_vars

\* The stems of the files under one output directory.
StemsIn(dir) == {p[2] : p \in FilesIn(dir)}

\* A block step writes the four files of one stem, and nothing else changes
\* under the output root.
C12_Step ==
  count' = count + 1 =>
    /\ Len(stems') = Len(stems) + 1
    /\ \A dir \in {"real", "map", "ins", "guidance"} :
         <<dir, stems'[Len(stems')]>> \in DOMAIN out_files'
    /\ DOMAIN out_files' =
         DOMAIN out_files \cup ({"real", "map", "ins", "guidance"} \X {stems'[Len(stems')]})
    /\ \A p \in DOMAIN out_files :
         p[2] # stems'[Len(stems')] => out_files'[p] = out_files[p]

\* Whatever was read, the run is not aborted and the directories agree.
C12_State ==
  /\ pc \in {"blocks", "done"} => error = ""
  /\ (pc = "blocks" /\ by < H) => ENABLED ProcessBlock
  /\ \A dir \in {"real", "map", "ins", "guidance"} :
       StemsIn(dir) = {stems[k] : k \in 1..Len(stems)}

\* C12: four files per block.  Every block step, whatever member reads fail,
\* writes exactly one file in each of real, map, ins and guidance, all with
\* the stem of the block; a failed read ends neither the block nor the run;
\* and at every moment the four directories hold the same set of stems.
C12_FourFilesPerBlock == [][C12_Step]_vars /\ []C12_State

\* A run has ended, the last block had a member whose read failed, and its
\* four files are there.
C12_Witness ==
  /\ pc = "done"
  /\ \E m \in DOMAIN reads : reads[m] # "ok"
  /\ \A dir \in {"real", "map", "ins", "guidance"} :
       <<dir, stems[Len(stems)]>> \in DOMAIN out_files

\* The number a non-empty decimal string denotes.
RECURSIVE DecimalValue(_)
DecimalValue(s) ==
  IF Len(s) = 0 THEN 0
  ELSE 10 * DecimalValue(SubSeq(s, 1, Len(s) - 1))
         + (CHOOSE d \in 0..9 : Digits[d + 1] = s[Len(s)])

\* s is the decimal numeral of n, filled with zeros on the left to width
\* characters and no further.
ZeroPadded(s, n, width) ==
  /\ IsDecimal(s)
  /\ DecimalValue(s) = n
  /\ Len(s) >= width
  /\ Len(s) > width => (Len(s) = 1 \/ s[1] # "0")

\* The stem of the block just written.
NewStem == stems'[Len(stems')]

C13_Step ==
  (args.name_mode = "coord" /\ count' = count + 1) =>
    /\ bx % args.block = 0 /\ by % args.block = 0
    /\ NewStem = BeforeLast(StemOf(NewStem)) \o <<"_">> \o AfterLast(StemOf(NewStem)) \o Ext
    /\ ZeroPadded(BeforeLast(StemOf(NewStem)), bx \div args.block, pad_x)
    /\ ZeroPadded(AfterLast(StemOf(NewStem)), by \div args.block, pad_y)

\* C13: coordinate stems.  In coordinate naming mode the block anchored at
\* (bx, by) is written under the stem <X>_<Y>.png where X is bx / S and Y is
\* by / S (the anchors being multiples of S), each zero-padded to its pad
\* width.
C13_CoordStems == [][C13_Step]_vars

\* A 3 x 2 grid was cut with S = 2 in coordinate mode: the second block, at
\* grid column 2, is block column 1.
C13_Witness ==
  /\ pc = "done" /\ args.name_mode = "coord" /\ args.block = 2
  /\ W = 3 /\ count = 2
  /\ {DecimalValue(BeforeLast(StemOf(stems[k]))) : k \in 1..Len(stems)} = {0, 1}

\* The X and Y segments of a name: the last two underscore-separated
\* segments of its stem.
XSegment(f) == AfterLast(BeforeLast(StemOf(f)))
YSegment(f) == AfterLast(StemOf(f))

\* The first of a set of names in lexicographic order.
LexFirst(fs) == CHOOSE f \in fs : \A g \in fs \ {f} : StrLess(f, g)

\* C14 (as claimed): in coordinate naming mode both pad widths are coord_digits
\* when it is given; otherwise they are the lengths of the X and Y segments of
\* the first name of the sorted listing that parses.
C14_FirstParsedName ==
  (pc \in {"blocks", "done"} /\ args.name_mode = "coord") =>
    IF args.coord_digits # NoArg
    THEN pad_x = ValueOf(args.coord_digits) /\ pad_y = ValueOf(args.coord_digits)
    ELSE Parsed(common) # {} =>
           /\ pad_x = Len(XSegment(LexFirst(Parsed(common))))
           /\ pad_y = Len(YSegment(LexFirst(Parsed(common))))

\* The non-hole cells of the grid, and the first of them in row-major order.
NonHoles == {c \in (0..(W - 1)) \X (0..(H - 1)) : name_grid[c[2]][c[1]] # None}

FirstCell ==
  CHOOSE c \in NonHoles :
    \A d \in NonHoles : c[2] < d[2] \/ (c[2] = d[2] /\ c[1] <= d[1])

\* C14 (amended): in coordinate naming mode both pad widths are coord_digits
\* when it is given; otherwise, when names parse, they are the lengths of the
\* X and Y segments of the name in the first non-hole cell of the grid in
\* row-major order.  The run of the single tile a_00042_00007.png writes
\* stems whose X and Y fields are five characters wide.
C14_FirstCellName ==
  /\ (pc \in {"blocks", "done"} /\ args.name_mode = "coord") =>
       IF args.coord_digits # NoArg
       THEN pad_x = ValueOf(args.coord_digits) /\ pad_y = ValueOf(args.coord_digits)
       ELSE Parsed(common) # {} =>
              /\ pad_x = Len(XSegment(name_grid[FirstCell[2]][FirstCell[1]]))
              /\ pad_y = Len(YSegment(name_grid[FirstCell[2]][FirstCell[1]]))
  /\ (common = <<WideName>> /\ args.name_mode = "coord" /\ args.coord_digits = NoArg) =>
       \A k \in 1..Len(stems) :
         Len(XSegment(stems[k])) = 5 /\ Len(YSegment(stems[k])) = 5

\* A run of a_1_2.png and b_01_2.png has taken the widths 2 and 1 of
\* b_01_2.png, the name in the first non-hole cell.
C14_Witness ==
  /\ pc = "blocks" /\ args.name_mode = "coord" /\ args.coord_digits = NoArg
  /\ Len(common) = 2 /\ Cardinality(Parsed(common)) = 2
  /\ pad_x = 2 /\ pad_y = 1

\* The run of a_00042_00007.png has ended with its 45 blocks written.
WideRunDone ==
  /\ pc = "done" /\ common = <<WideName>> /\ args.coord_digits = NoArg
  /\ count = 45 /\ pad_x = 5 /\ pad_y = 5

C15_Step ==
  (args.name_mode = "seq" /\ count' = count + 1) =>
    /\ count = (by \div args.block) * CeilOf(W, args.block) + (bx \div args.block)
    /\ ZeroPadded(StemOf(NewStem), count, 5)
    /\ NewStem = StemOf(NewStem) \o Ext

C15_State ==
  args.name_mode = "seq" =>
    /\ pc \in {"start", "listed", "grid"} => count = 0
    /\ Len(stems) = count
    /\ \A k \in 1..Len(stems) : DecimalValue(StemOf(stems[k])) = k - 1
    /\ pc = "done" =>
         /\ count = CeilOf(W, args.block) * CeilOf(H, args.block)
         /\ \A dir \in {"real", "map", "ins", "guidance"} :
              Cardinality(FilesIn(dir)) = count

\* C15: sequential naming.  The counter starts at 0 and rises by one per
\* block; the block anchored at (bx, by) is written under the five-digit
\* numeral of (by / S) * ceil(W / S) + bx / S; the stems of a run are 0, 1,
\* ..., in processing order; and at the end the counter equals the number of
\* blocks, ceil(W / S) * ceil(H / S), and of files in each directory.
C15_SequentialCounter == [][C15_Step]_vars /\ []C15_State

\* A sequentially named run of two block columns and three block rows.
C15_Witness ==
  /\ pc = "done" /\ args.name_mode = "seq"
  /\ CeilOf(W, args.block) = 2 /\ CeilOf(H, args.block) = 3 /\ count = 6

\* The stitcher has built its grid.
StitchGridBuilt == pc \in {"grid", "paste", "done"}

\* The grid block mode builds from the stitcher's names and arguments with
\* block factor S.
BlockGridOf(S) ==
  build_grid(tile_names, [block |-> S, tiles_per_row |-> args.tiles_per_row,
                          order |-> args.order])

\* C16 (as claimed): for the same sorted names, tiles_per_row and order flag
\* the stitcher's width, height and cells are those of the block-mode grid,
\* whatever the block factor.
C16_SameGridAsBlockMode ==
  StitchGridBuilt =>
    \A S \in BlockValues :
      /\ BlockGridOf(S).tag = "grid"
      /\ BlockGridOf(S).W = W /\ BlockGridOf(S).H = H
      /\ BlockGridOf(S).grid = name_grid

\* The stitcher has decoded its reference tile.
ReferenceTaken == pc \in {"paste", "done"}

\* C17 (as claimed): the reference tile is the lexicographically first of the
\* names placed in the grid.
C17_ReferenceIsLexFirst ==
  ReferenceTaken => im0.name = LexFirst(Names(ordered))

\* C17 (amended): the reference tile, whose size and pixel format fix tile_w,
\* tile_h and the canvas mode, is the name in the first non-hole cell of the
\* grid in row-major order; when no name parses that is the
\* lexicographically first name.
C17_ReferenceIsFirstCell ==
  ReferenceTaken =>
    /\ im0.name = name_grid[FirstCell[2]][FirstCell[1]]
    /\ <<tile_w, tile_h>> = disk[name_grid[FirstCell[2]][FirstCell[1]]].size
    /\ im0.mode = disk[name_grid[FirstCell[2]][FirstCell[1]]].mode
    /\ mosaic.mode = im0.mode
    /\ strategy # "coord" => im0.name = LexFirst(Names(tile_names))

\* A mosaic was saved whose reference tile is not the lexicographically first
\* name, and is not in cell (0, 0).
C17_Witness ==
  /\ pc = "done"
  /\ im0.name # LexFirst(Names(ordered))
  /\ name_grid[0][0] = None

\* The pixel offset of a grid cell in the mosaic.
CellOffset(c) == <<c[1] * tile_w, c[2] * tile_h>>

\* The rectangles pasted at offsets o and p share no pixel.
Disjoint(o, p) ==
  \/ o[1] + mosaic.pastes[o].size[1] <= p[1]
  \/ p[1] + mosaic.pastes[p].size[1] <= o[1]
  \/ o[2] + mosaic.pastes[o].size[2] <= p[2]
  \/ p[2] + mosaic.pastes[p].size[2] <= o[2]

\* C18: stitch placement.  The canvas is (W * tile_w) x (H * tile_h); every
\* paste is the tile of a non-hole cell (x, y) at (x * tile_w, y * tile_h),
\* resized exactly when its size differs from the reference and then covering
\* tile_w x tile_h pixels; every non-hole cell whose tile was read has its
\* paste, and at the end every non-hole cell was visited; two pastes never
\* overlap and none extends past the canvas.  The tiles 0_0, 1_0, 0_1, 1_1 of
\* 256 x 256 pixels give a 512 x 512 canvas.
C18_StitchPlacement ==
  ReferenceTaken =>
    /\ mosaic.size = <<W * tile_w, H * tile_h>>
    /\ \A o \in DOMAIN mosaic.pastes :
         /\ \E c \in NonHoles :
              /\ o = CellOffset(c)
              /\ mosaic.pastes[o].name = name_grid[c[2]][c[1]]
              /\ mosaic.pastes[o].resized <=>
                   disk[name_grid[c[2]][c[1]]].size # <<tile_w, tile_h>>
         /\ mosaic.pastes[o].size = <<tile_w, tile_h>>
         /\ o[1] + mosaic.pastes[o].size[1] <= mosaic.size[1]
         /\ o[2] + mosaic.pastes[o].size[2] <= mosaic.size[2]
    /\ \A o, p \in DOMAIN mosaic.pastes : o # p => Disjoint(o, p)
    /\ \A c \in DOMAIN reads : reads[c] = "ok" => CellOffset(c) \in DOMAIN mosaic.pastes
    /\ pc = "done" => DOMAIN reads = NonHoles
    /\ (Names(tile_names) = TwoByTwo /\ \A f \in TwoByTwo : disk[f].size = <<256, 256>>) =>
         mosaic.size = <<512, 512>>

\* The mosaic of 0_0, 1_0, 0_1, 1_1, all 256 x 256 and all read, is saved.
C18_Witness ==
  /\ pc = "done"
  /\ Names(tile_names) = TwoByTwo
  /\ mosaic.size = <<512, 512>>
  /\ DOMAIN mosaic.pastes = {<<0, 0>>, <<256, 0>>, <<0, 256>>, <<256, 256>>}
  /\ mosaic.pastes[<<256, 0>>].name = <<"1", "_", "0">> \o Ext

\* A tile of another size than the reference was resized and pasted.
ResizedPaste ==
  pc = "done" /\ \E o \in DOMAIN mosaic.pastes : mosaic.pastes[o].resized

\* C19 (as claimed): in stitch mode no read failure of a tile ends the run;
\* a cell whose read failed keeps the background, and a finished run has
\* written its one output file.
C19_ReadFailureNeverFatal ==
  /\ error # "OSError"
  /\ ReferenceTaken =>
       \A c \in DOMAIN reads :
         reads[c] = "failed" => CellOffset(c) \notin DOMAIN mosaic.pastes
  /\ pc = "done" => DOMAIN out_files = {args.out_path}

StitchNoTilesFatal ==
  (listing["tiles"] = {} /\ pc # "start") =>
    /\ pc = "exit" /\ error = "SystemExit"
    /\ out_files = NoFunction /\ dirs = {}
    /\ name_grid = NoFunction /\ W = 0 /\ H = 0
    /\ mosaic = NoFunction /\ reads = NoFunction
    /\ ~ENABLED StitchNext

StitchNoTilesExit == pc = "exit" /\ listing["tiles"] = {}

\* The common names main() computes when the four directories are listed in
\* the orders o.
CommonUnder(o) == ensure_pairs(o[1], o[2], o[3], o[4])

\* The orders in which the four directories of the run may be listed.
ListingOrders ==
  ListOrders(listing["real"]) \X ListOrders(listing["map"])
    \X ListOrders(listing["ins"]) \X ListOrders(listing["synth"])

\* The k-th stem of a run is the one its position and the configuration fix.
StemFixed(k) ==
  IF args.name_mode = "seq"
  THEN ZeroPadded(StemOf(stems[k]), k - 1, 5)
  ELSE /\ ZeroPadded(XSegment(stems[k]), (k - 1) % CeilOf(W, args.block), pad_x)
       /\ ZeroPadded(YSegment(stems[k]), (k - 1) \div CeilOf(W, args.block), pad_y)

\* C21: determinism.  Whatever order the directory listings come in, the run
\* has, once the directories are listed, the same list of common names and
\* then builds the same grid (width, height, every cell); the pad widths
\* follow from the grid and the configuration, and the stems of a finished
\* run from the grid size, the configuration and the pad widths alone.
C21_Determinism ==
  /\ pc \in {"listed", "exit"} => \A o \in ListingOrders : CommonUnder(o) = common
  /\ pc = "grid" =>
       \A o \in ListingOrders :
         build_grid(CommonUnder(o), args) = BuiltGrid(strategy, W, H, name_grid)
  /\ (pc \in {"blocks", "done"} /\ args.name_mode = "coord") =>
       /\ pad_x = padding(name_grid, W, H, args).x
       /\ pad_y = padding(name_grid, W, H, args).y
  /\ pc = "done" =>
       /\ Len(stems) = CeilOf(W, args.block) * CeilOf(H, args.block)
       /\ \A k \in 1..Len(stems) : StemFixed(k)

\* A finished run over three names, grid built from coordinates, with holes.
C21_Witness ==
  /\ pc = "done" /\ strategy = "coord" /\ Len(common) = 3
  /\ \E c \in (0..(W - 1)) \X (0..(H - 1)) : name_grid[c[2]][c[1]] = None

\* Stitch mode: the names and the grid do not depend on the listing order.
StitchDeterminism ==
  /\ pc \in {"listed", "exit"} =>
       \A o \in ListOrders(listing["tiles"]) : read_pngs_sorted(o) = tile_names
  /\ pc = "grid" =>
       \A o \in ListOrders(listing["tiles"]) :
         /\ stitch_grid(read_pngs_sorted(o), args.tiles_per_row, args.order).width = W
         /\ stitch_grid(read_pngs_sorted(o), args.tiles_per_row, args.order).height = H
         /\ stitch_grid(read_pngs_sorted(o), args.tiles_per_row, args.order).grid = name_grid

\* C22 (as claimed): after tiling at tile size T and stitching, every tile
\* that is neither missing nor resized is in the mosaic at pixel offset
\* (x * T, y * T), the corner it was cropped from.
C22_RoundTrip ==
  pc = "done" =>
    /\ \A o \in DOMAIN mosaic.pastes :
         ~mosaic.pastes[o].resized =>
           /\ o = <<disk[mosaic.pastes[o].name].cell[1] * TILE_SIZE,
                    disk[mosaic.pastes[o].name].cell[2] * TILE_SIZE>>
           /\ o = <<disk[mosaic.pastes[o].name].crop[1],
                    disk[mosaic.pastes[o].name].crop[2]>>
    /\ \A f \in listing["tiles"] :
         disk[f].size = im0.size =>
           \E o \in DOMAIN mosaic.pastes :
             mosaic.pastes[o].name = f /\ ~mosaic.pastes[o].resized


\* C23 as stated: the explicit-width fallback produces no holes, every cell
\* (x, y) with 0 <= x < W and 0 <= y < ceil(N / W) of the block-mode grid
\* holds a name.
C23_ExplicitNoHoles ==
  (GridBuilt /\ strategy = "explicit") =>
    \A y \in 0..(H - 1), x \in 0..(W - 1) : name_grid[y][x] # None

\* C23, amended: the explicit-width fallback produces no holes before the
\* tile count.  Every cell (x, y) with y * W + x < N holds a name, the
\* W * ceil(N / W) - N cells after it, at the end of the last row, are holes,
\* and the grid is free of holes exactly when W divides N.
C23_HolesOnlyPastCount ==
  LET N == Len(common) IN
  (GridBuilt /\ strategy = "explicit") =>
    /\ N >= 1 /\ W >= 1 /\ H = CeilOf(N, W)
    /\ \A y \in 0..(H - 1), x \in 0..(W - 1) :
         (name_grid[y][x] # None) <=> (y * W + x < N)
    /\ Cardinality({c \in (0..(W - 1)) \X (0..(H - 1)) : name_grid[c[2]][c[1]] = None})
         = W * H - N
    /\ \A y \in 0..(H - 2), x \in 0..(W - 1) : name_grid[y][x] # None
    /\ (\A y \in 0..(H - 1), x \in 0..(W - 1) : name_grid[y][x] # None) <=> (N % W = 0)

\* Three names laid out two per row: cell (1, 1) is a hole.
C23_Witness ==
  /\ pc = "blocks" /\ strategy = "explicit"
  /\ Len(common) = 3 /\ W = 2 /\ H = 2
  /\ name_grid[1][0] # None /\ name_grid[1][1] = None


\* C24: every grid handed to block aggregation has width >= 1, height >= 1
\* and a cell, name or hole, for every (x, y) with 0 <= x < W, 0 <= y < H,
\* for every non-empty name list and every accepted tiles_per_row and block;
\* grid construction never fails with an arithmetic error.
C24_GridWellFormed ==
  /\ error # "ZeroDivisionError"
  /\ pc = "grid" =>
       /\ W >= 1 /\ H >= 1
       /\ DOMAIN name_grid = 0..(H - 1)
       /\ \A y \in 0..(H - 1) : DOMAIN name_grid[y] = 0..(W - 1)

\* The same for the stitcher, under SpecStitch.
StitchGridWellFormed ==
  /\ error # "ZeroDivisionError"
  /\ pc = "grid" =>
       /\ W >= 1 /\ H >= 1
       /\ DOMAIN name_grid = 0..(H - 1)
       /\ \A y \in 0..(H - 1) : DOMAIN name_grid[y] = 0..(W - 1)


\* The positions a block can have in a processing order of the blocks.
Positions == 0..(CeilOf(W, args.block) * CeilOf(H, args.block) - 1)

\* The files of the pending block, had n blocks been processed before it.
BlockFilesAt(n) ==
  block_outputs(block_canvases(name_grid, W, H, args.block, bx, by, reads'),
                block_stem(args, bx, by, pad_x, pad_y, n))

\* A block step leaves the grid and the configuration alone and leaves every
\* file written for an earlier block as it was.
BlockIsolated ==
  /\ UNCHANGED <<name_grid, W, H, args, pad_x, pad_y, common>>
  /\ \A p \in DOMAIN out_files : p \in DOMAIN out_files' /\ out_files'[p] = out_files[p]

\* The files just written are those of the block at position n.
WrittenAsAt(n) ==
  \A p \in DOMAIN BlockFilesAt(n) :
    p \in DOMAIN out_files' /\ out_files'[p] = BlockFilesAt(n)[p]

C25_Step ==
  count' = count + 1 =>
    /\ BlockIsolated
    /\ \A n \in Positions : WrittenAsAt(n)

\* C25 as stated: the files written for the block anchored at (bx, by), stem
\* and per-channel content, depend only on the grid, the configuration and
\* the member tiles of the block, so they are the same at every position of
\* the block in the processing order, in both naming modes; a block step
\* modifies neither the grid nor the output of another block.
C25_BlocksIndependent == [][C25_Step]_vars

C25_StepAmended ==
  count' = count + 1 =>
    /\ BlockIsolated
    /\ args.name_mode = "coord" => \A n \in Positions : WrittenAsAt(n)
    /\ args.name_mode = "seq" =>
         /\ WrittenAsAt(count)
         /\ \A n \in Positions \ {count} :
              /\ block_stem(args, bx, by, pad_x, pad_y, n) # NewStem
              /\ \A dir \in {"real", "map", "ins", "guidance"} :
                   out_files'[<<dir, NewStem>>] =
                     BlockFilesAt(n)[<<dir, block_stem(args, bx, by, pad_x, pad_y, n)>>]

\* C25, amended: the per-channel content of the files of a block depends only
\* on the grid, the configuration and the member tiles of the block, in both
\* naming modes, and so does the stem in coordinate mode; in sequential mode
\* the stem is the shared counter, the number of blocks processed before, and
\* differs at every other position.  A block step modifies neither the grid
\* nor the output of another block.
C25_ContentIndependent == [][C25_StepAmended]_vars

\* A run in coordinate mode has written the files of its two blocks.
C25_Witness ==
  /\ pc = "done" /\ args.name_mode = "coord" /\ count = 2 /\ Len(stems) = 2
  /\ stems[1] # stems[2]
  /\ \A dir \in {"real", "map", "ins", "guidance"}, k \in 1..2 :
       <<dir, stems[k]>> \in DOMAIN out_files


\* The output directory that receives the canvas of a channel.
DirOf(c) == IF c = "synth" THEN "guidance" ELSE c

\* The 1-based position in the run of the block that owns cell (gx, gy), and
\* the canvas offset of the cell in it.
OwnerOf(gx, gy) == (gy \div args.block) * CeilOf(W, args.block) + (gx \div args.block) + 1
OffsetOf(gx, gy) == <<(gx % args.block) * tile_size, (gy % args.block) * tile_size>>

\* The canvas of channel c saved by the k-th block of the run.
SavedCanvas(c, k) == out_files[<<DirOf(c), stems[k]>>].of

\* Where the decoded tile f of channel c was pasted in the run: pairs of a
\* block position and a canvas offset.
Pastes(c, f) ==
  {p \in (1..Len(stems)) \X Offsets(args.block, tile_size) :
     SavedCanvas(c, p[1])[p[2]] = Tile(c, f)}

\* The places that belong to the cells holding name f.
PlacesOf(f) == {<<OwnerOf(c[1], c[2]), OffsetOf(c[1], c[2])>> : c \in CellsOf(f)}

\* A block step visits the cells (bx + i, by + j) inside the grid, each one
\* owned by the anchor (S * (gx div S), S * (gy div S)) and shown at offset
\* ((gx mod S) * t, (gy mod S) * t).
C26_Step ==
  LET S == args.block IN
  count' = count + 1 =>
    \A i \in 0..(S - 1), j \in 0..(S - 1) :
      IF bx + i < W /\ by + j < H
      THEN /\ bx = S * ((bx + i) \div S) /\ by = S * ((by + j) \div S)
           /\ i = (bx + i) % S /\ j = (by + j) % S
           /\ count + 1 = OwnerOf(bx + i, by + j)
           /\ \A c \in Channels :
                CanvasAfter(c)[OffsetOf(bx + i, by + j)]
                  \in {Blank(Mode(c)), Tile(c, name_grid[by + j][bx + i])}
      ELSE \A c \in Channels :
             CanvasAfter(c)[<<i * tile_size, j * tile_size>>] = Blank(Mode(c))

\* When the run has ended every block has its own files.
AllBlocksSaved ==
  pc = "done" =>
    /\ Len(stems) = CeilOf(W, args.block) * CeilOf(H, args.block)
    /\ Cardinality({stems[k] : k \in 1..Len(stems)}) = Len(stems)

C26_State ==
  /\ AllBlocksSaved
  /\ pc = "done" =>
       \A f \in {name_grid[c[2]][c[1]] : c \in NonHoles}, c \in Channels :
         \E p \in PlacesOf(f) : Pastes(c, f) = {p}

\* C26 as stated: blocks partition the grid.  Every cell (gx, gy) is visited
\* as a member of exactly one block, the one anchored at
\* (S * (gx div S), S * (gy div S)), at offset ((gx mod S) * t, (gy mod S) * t);
\* over a whole run every non-hole tile is read and pasted exactly once per
\* channel, none is skipped and none is used in two blocks.
C26_BlocksPartition == [][C26_Step]_vars /\ []C26_State

\* The name can always be read in all four directories.
Readable(f) == \A c \in Channels : <<c, f>> \notin FaultyFiles

C26_StateAmended ==
  /\ AllBlocksSaved
  /\ pc = "done" =>
       \A f \in {name_grid[c[2]][c[1]] : c \in NonHoles}, c \in Channels :
         /\ Pastes(c, f) \subseteq PlacesOf(f)
         /\ Readable(f) => Pastes(c, f) = PlacesOf(f)

\* C26, amended: blocks partition the grid.  Every cell (gx, gy) is visited
\* as a member of exactly one block, the one anchored at
\* (S * (gx div S), S * (gy div S)), at offset ((gx mod S) * t, (gy mod S) * t);
\* over a whole run the tile of a non-hole cell is pasted at most once per
\* channel for each cell that holds its name, at the place of that cell and
\* nowhere else, and exactly once per such cell when its files can be read.
C26_CellsPartition == [][C26_Step]_vars /\ []C26_StateAmended

\* A 3 x 2 grid was cut into two blocks with S = 2: the tile of cell (2, 0) is
\* in the second block at offset (0, 0), that of cell (1, 1) in the first
\* block at offset (t, t).
C26_Witness ==
  /\ pc = "done" /\ args.block = 2 /\ W = 3 /\ H = 2 /\ count = 2
  /\ name_grid[0][2] # None /\ name_grid[1][1] # None
  /\ Pastes("map", name_grid[0][2]) = {<<2, <<0, 0>>>>}
  /\ Pastes("map", name_grid[1][1]) = {<<1, <<tile_size, tile_size>>>>}


\* A block step writes under a stem no earlier block of the run has used.
C27_Step ==
  count' = count + 1 =>
    /\ \A k \in 1..Len(stems) : stems[k] # NewStem
    /\ \A dir \in {"real", "map", "ins", "guidance"} : <<dir, NewStem>> \notin DOMAIN out_files

\* The stems written so far are pairwise different and each output
\* directory holds one file per processed block.
C27_State ==
  /\ \A k, l \in 1..Len(stems) : k # l => stems[k] # stems[l]
  /\ \A dir \in {"real", "map", "ins", "guidance"} : Cardinality(FilesIn(dir)) = count

\* C27: within one run no output path is written twice.  Two different
\* blocks get different stems, in sequential mode and in coordinate mode for
\* every pad width, an override narrower than the largest block index
\* included, so no block overwrites a file of another block in any channel
\* directory.
C27_NoPathTwice == [][C27_Step]_vars /\ []C27_State

\* The 15 x 3 blocks of the a_00042_00007.png run written with coord_digits 1:
\* block columns 10..14 need two digits and all 45 stems differ.
C27_Witness ==
  /\ pc = "done" /\ args.coord_digits = Arg(1) /\ pad_x = 1
  /\ Len(stems) = 45
  /\ \E k \in 1..Len(stems) : Len(XSegment(stems[k])) = 2
  /\ Cardinality({stems[k] : k \in 1..Len(stems)}) = 45


\* The grid the stitcher's coordinate inference builds over the stems of the
\* run, listed as the files of an output directory.
StemGrid == stitch_reorder_with_coordinates(read_pngs_sorted(stems))

C28_Step ==
  (args.name_mode = "coord" /\ count' = count + 1) =>
    parse_xy_from_name(NewStem) = Coord(bx \div args.block, by \div args.block)

\* The grid g rebuilt from the stems has one cell per block of the run.
StemGridOk(g, bw, bh) ==
  /\ g.tag = "grid"
  /\ g.width = bw /\ g.height = bh
  /\ \A y \in 0..(bh - 1), x \in 0..(bw - 1) :
       /\ g.grid[y][x] # None
       /\ g.grid[y][x] = stems[y * bw + x + 1]

C28_State ==
  (pc = "done" /\ args.name_mode = "coord") =>
    /\ StemGridOk(StemGrid, CeilOf(W, args.block), CeilOf(H, args.block))
    /\ StemGridOk(reorder_with_coordinates(read_pngs_sorted(stems)),
                  CeilOf(W, args.block), CeilOf(H, args.block))

\* C28: output names round-trip through the parser.  Every coordinate-mode
\* stem written for the block anchored at (bx, by) parses to (bx / S, by / S),
\* whatever the pad widths, and coordinate inference over the stems of a run
\* on a W x H grid rebuilds a grid of width ceil(W / S) and height ceil(H / S)
\* without holes in which that block is at cell (bx / S, by / S).
C28_StemsRoundTrip == [][C28_Step]_vars /\ []C28_State

\* The 45 stems of the a_00042_00007.png run with five-digit fields: the last
\* one parses to block (14, 2).
C28_Witness ==
  /\ pc = "done" /\ args.name_mode = "coord" /\ pad_x = 5
  /\ Len(stems) = 45
  /\ parse_xy_from_name(stems[45]) = Coord(14, 2)
  /\ StemGrid.width = 15 /\ StemGrid.height = 3


\* C29: the two block-aggregation programs agree on layout and naming.  For
\* the same common names and the same block, tiles_per_row, order, name_mode
\* and coord_digits, the program without real imagery computes the grid
\* (width, height, every cell) of the program with real imagery, or fails as
\* it fails, the same pad widths in coordinate mode and the same sequence of
\* output stems.
C29_ProgramsAgree ==
  /\ pc = "grid" => no_real_build_grid(common, args) = BuiltGrid(strategy, W, H, name_grid)
  /\ pc = "crashed" => no_real_build_grid(common, args).tag = error
  /\ (pc \in {"blocks", "done"} /\ args.name_mode = "coord") =>
       no_real_padding(name_grid, W, H, args) = [x |-> pad_x, y |-> pad_y]
  /\ pc = "done" =>
       stems = no_real_stems(args, W, H,
                             no_real_padding(name_grid, W, H, args).x,
                             no_real_padding(name_grid, W, H, args).y)

\* A run in coordinate mode over names without coordinates, the grid narrower
\* than the block, so that W // S = 0: both programs pad with one digit.
C29_Witness ==
  /\ pc = "done" /\ args.name_mode = "coord" /\ args.coord_digits = NoArg
  /\ strategy = "explicit" /\ W < args.block
  /\ pad_x = 1
  /\ no_real_padding(name_grid, W, H, args).x = 1
  /\ stems = no_real_stems(args, W, H, 1, pad_y)


\* The number of decimal digits of n, 0 <= n < 1000.
NumDigits(n) == IF n < 10 THEN 1 ELSE IF n < 100 THEN 2 ELSE 3

\* C30: fallback pad widths are sufficient.  In coordinate naming mode with
\* no parseable name and no coord_digits, pad_x is the number of decimal
\* digits of W div S and pad_y that of H div S, at least 1; the largest block
\* index ceil(W / S) - 1 is at most W div S (likewise for H), so no block
\* index needs more digits than its pad width and every stem of the run has
\* the same length.
C30_FallbackPads ==
  LET S == args.block IN
  (/\ pc \in {"blocks", "done"} /\ args.name_mode = "coord"
   /\ args.coord_digits = NoArg /\ Parsed(common) = {}) =>
    /\ pad_x = NumDigits(W \div S) /\ pad_y = NumDigits(H \div S)
    /\ pad_x >= 1 /\ pad_y >= 1
    /\ CeilOf(W, S) - 1 <= W \div S /\ CeilOf(H, S) - 1 <= H \div S
    /\ NumDigits(CeilOf(W, S) - 1) <= pad_x /\ NumDigits(CeilOf(H, S) - 1) <= pad_y
    /\ \A k \in 1..Len(stems) :
         /\ Len(XSegment(stems[k])) = pad_x /\ Len(YSegment(stems[k])) = pad_y
         /\ Len(stems[k]) = Len(stems[1])

\* One name laid out in a row of 30 with S = 3: W div S = 10, the ten blocks
\* 0..9 are written with two-digit X fields.
C30_Witness ==
  /\ pc = "done" /\ args.name_mode = "coord" /\ args.coord_digits = NoArg
  /\ Parsed(common) = {}
  /\ W = 30 /\ args.block = 3 /\ pad_x = 2 /\ pad_y = 1
  /\ Len(stems) = 10
  /\ XSegment(stems[10]) = <<"0", "9">>

==========================================================================
